---- MODULE Spec2Model ----
(***************************************************************************)
(* Model of apyefa: the EfaClient facade (src/apyefa/client.py), the       *)
(* commands it builds and the transport session it owns.                   *)
(*                                                                         *)
(* Python values are tagged records, so that None, strings, integers,      *)
(* booleans and Location objects can be told apart without comparing       *)
(* values of different TLA+ types:                                         *)
(*    [t |-> "none"]              None                                     *)
(*    [t |-> "url",  v |-> <<..>>] the url string, as characters            *)
(*    [t |-> "str",  v |-> "a"]   a string                                 *)
(*    [t |-> "int",  v |-> 1]     an integer                               *)
(*    [t |-> "bool", v |-> TRUE]  a boolean                                *)
(*    [t |-> "loc", id |-> "a", loc_type |-> "stop"]  a Location object    *)
(*    [t |-> "dict", stopId |-> .., other |-> FALSE]  a properties object  *)
(* The endpoint url is a sequence of one-character strings, because the    *)
(* constructor looks at its last character.                                *)
(***************************************************************************)
EXTENDS Integers, Sequences, FiniteSets, TLC

VARIABLES client, sessions, calls, nCalls, nGets, ret,
          command, lastCall, infoKeys, locations, parseOut, data

\* the facade and its transport
facadeVars == <<client, sessions, calls, nCalls, nGets, ret>>

\* a command built on its own: the command, and the last call made on it;
\* and the keys the schema of CommandSystemInfo declares
commandVars == <<command, lastCall, infoKeys>>

\* a parser run on its own: the locations of a response or the input handed
\* to a command's parse, and the parse result
parseVars == <<locations, parseOut, data>>

vars == <<facadeVars, commandVars, parseVars>>

----------------------------------------------------------------------------
(* Bounds of the model *)

\* number of times the client context may be entered
MaxScopes == 2

\* number of facade invocations in one behaviour
MaxCalls == 2

\* largest number of items in a response list
MaxItems == 2

\* largest limit argument a caller passes
MaxLimit == 2

\* number of add_param calls made on one command
MaxParams == 2
\* the highest match quality of a location in a response parsed on its own
MaxQuality == 2

\* number of times __aexit__ is called on one session
MaxReleases == 2

----------------------------------------------------------------------------
(* Python values *)

None == [t |-> "none"]

StrV(s) == [t |-> "str", v |-> s]

IntV(n) == [t |-> "int", v |-> n]

BoolV(b) == [t |-> "bool", v |-> b]

Loc(id, ty) == [t |-> "loc", id |-> id, loc_type |-> ty]

\* Python truthiness, as used by "if not x"
Truthy(x) ==
    CASE x.t = "none" -> FALSE
      [] x.t = "str"  -> x.v # ""
      [] x.t = "int"  -> x.v # 0
      [] x.t = "bool" -> x.v
      [] x.t = "dict" -> x.stopId.t # "absent" \/ x.other
      [] OTHER        -> TRUE

\* Python ==  on the values above: True == 1 and False == 0
PyEq(x, y) ==
    LET num(z) == IF z.t = "bool" THEN (IF z.v THEN 1 ELSE 0) ELSE z.v
    IN  CASE x.t \in {"int", "bool"} /\ y.t \in {"int", "bool"} -> num(x) = num(y)
          [] x.t = "str" /\ y.t = "str" -> x.v = y.v
          [] x.t = "none" /\ y.t = "none" -> TRUE
          [] OTHER -> FALSE

RECURSIVE SumSeq(_)
\* Python sum() of a list of integers
SumSeq(s) == IF s = <<>> THEN 0 ELSE Head(s) + SumSeq(Tail(s))

----------------------------------------------------------------------------
(* EfaClient.__init__ *)

\* str.endswith("/") on a url given as a sequence of characters
EndsWithSlash(u) == Len(u) > 0 /\ u[Len(u)] = "/"

\* a variant that appends the separator whatever the url ends with
NormalizeUrlAlways(u) == Append(u, "/")

\* the stored base url: url if url.endswith("/") else f"{url}/"
NormalizeUrl(u) == IF EndsWithSlash(u) THEN u ELSE Append(u, "/")

\* a variant without the format check
InitOutcomeNoFormat(url, format) ==
    IF url.t = "none" \/ url.v = <<>> THEN "ValueError" ELSE "ok"

\* a variant whose url check is "url is None"
InitOutcomeNoneOnly(url, format) ==
    IF url.t = "none" THEN "ValueError"
    ELSE IF format # "rapidJSON" THEN "EfaFormatNotSupported"
    ELSE "ok"

\* the outcome of EfaClient(url, debug, format): the error raised, or "ok"
InitOutcome(url, format) ==
    IF url.t = "none" \/ url.v = <<>> THEN "ValueError"
    ELSE IF format # "rapidJSON" THEN "EfaFormatNotSupported"
    ELSE "ok"

\* urls a caller constructs the client with
UrlInputs ==
    {None} \cup {[t |-> "url", v |-> u] : u \in {<<>>, <<"h">>, <<"h", "/">>}}

FormatInputs == {"rapidJSON", "xml", ""}

NoClient ==
    [format |-> "", state |-> "none", err |-> "none", base_url |-> <<>>,
     debug |-> FALSE, url_arg |-> None, format_arg |-> "", session |-> 0,
     exit_exc |-> FALSE]

----------------------------------------------------------------------------
(* Enumerations of apyefa.data_classes, as far as the facade uses them *)

\* CoordFormat.WGS84.value, the coordinate format every operation forces
WGS84 == StrV("WGS84[dd.ddddd]")

\* the values of CoordFormat
CoordFormatValues == {"WGS84[dd.ddddd]"}

\* sum([x.value for x in LineRequestType]): the flags 1, 2, 4, 8 and 16
LineRequestTypeSum == 31

\* sum([x.value for x in LocationFilter]): the flags 1, 2, 4, ..., 64
LocationFilterSum == 127

----------------------------------------------------------------------------
(* Commands: a name, the parameters in insertion order, and the error    *)
(* that building it raised ("none" while none was raised)                *)

\* is value v in the domain dom a schema declares for a key
InDomain(dom, v) ==
    CASE dom = "rapidJSON" -> v.t = "str" /\ v.v = "rapidJSON"
      [] dom = "coord"     -> v.t = "str" /\ v.v \in CoordFormatValues
      [] dom = "flag"      -> \/ PyEq(v, StrV("0")) \/ PyEq(v, StrV("1"))
                              \/ PyEq(v, IntV(0)) \/ PyEq(v, IntV(1))
      [] dom = "mode"      -> v.t = "str" /\ v.v \in {"odv", "line"}
      [] dom = "stopID"    -> v.t = "str" /\ v.v = "stopID"
      [] dom = "anyOrCoord" -> v.t = "str" /\ v.v \in {"any", "coord"}
      [] dom = "str"       -> v.t = "str"
      [] dom = "lineReqType" ->
             /\ v.t \in {"int", "bool"}
             /\ LET n == IF v.t = "bool" THEN (IF v.v THEN 1 ELSE 0) ELSE v.v
                IN  0 <= n /\ n <= LineRequestTypeSum
      [] dom = "locFilter" ->
             /\ v.t \in {"int", "bool"}
             /\ LET n == IF v.t = "bool" THEN (IF v.v THEN 1 ELSE 0) ELSE v.v
                IN  0 <= n /\ n <= LocationFilterSum
      [] OTHER -> TRUE

\* CommandServingLines._get_params_schema: key -> declared domain
ServingLinesSchema ==
    [k \in {"outputFormat", "coordOutputFormat", "locationServerActive", "mode",
            "type_sl", "name_sl", "lineName", "lineReqType", "mergeDir",
            "lsShowTrainsExplicit", "line"} |->
        CASE k = "outputFormat" -> "rapidJSON"
          [] k = "coordOutputFormat" -> "coord"
          [] k = "locationServerActive" -> "flag"
          [] k = "mode" -> "mode"
          [] k = "type_sl" -> "stopID"
          [] k = "lineReqType" -> "lineReqType"
          [] k \in {"mergeDir", "lsShowTrainsExplicit"} -> "flag"
          [] OTHER -> "str"]

\* the domain the commands outside the sources give a key: the flags,
\* the coordinate format and the bit-flag sums the specification names
DomainOf(k) ==
    CASE k = "outputFormat" -> "rapidJSON"
      [] k = "coordOutputFormat" -> "coord"
      [] k \in {"locationServerActive", "doNotSearchForStops_sf",
                "lineListMixedLines", "mergeDir", "servingLines",
                "servingLinesMOTType", "servingLinesMOTTypes",
                "tariffZones", "useProxFootSearch", "useAllStops",
                "lsShowTrainsExplicit", "useRealtime", "allStopInfo",
                "filterPublished", "filterValid"} -> "flag"
      [] k = "lineReqType" -> "lineReqType"
      [] k = "anyObjFilter_sf" -> "locFilter"
      [] OTHER -> "any"

\* the keys a schema of the system-info command declares: those the facade
\* sets on it (client.py, lines 73 and 74), or outputFormat alone, as the
\* schema of SystemInfoRequest has it (req_system_info.py, lines 22 to 27)
FacadeInfoKeys == {"outputFormat", "coordOutputFormat"}
RequestInfoKeys == {"outputFormat"}

\* the schemas of the commands whose modules are not part of the sources:
\* the keys the facade sets on each; for CommandSystemInfo, the keys held
\* in infoKeys
SystemInfoSchema ==
    [k \in infoKeys |-> DomainOf(k)]

StopFinderSchema ==
    [k \in {"outputFormat", "coordOutputFormat", "locationServerActive",
            "type_sf", "name_sf", "doNotSearchForStops_sf", "anyObjFilter_sf"}
        |-> DomainOf(k)]

LineListSchema ==
    [k \in {"outputFormat", "coordOutputFormat", "lineListBranchCode",
            "lineListNetBranchCode", "lineListSubnetwork", "lineListOMC",
            "lineListMixedLines", "mergeDir", "lineReqType"} |-> DomainOf(k)]

StopListSchema ==
    [k \in {"outputFormat", "coordOutputFormat", "stopListOMC",
            "stopListPlaceId", "stopListOMCPlaceId", "rTN",
            "stopListSubnetwork", "fromstop", "tostop", "servingLines",
            "servingLinesMOTType", "servingLinesMOTTypes", "tariffZones"}
        |-> DomainOf(k)]

DeparturesSchema ==
    [k \in {"outputFormat", "coordOutputFormat", "locationServerActive",
            "name_dm", "type_dm", "mode", "useProxFootSearch", "useAllStops",
            "lsShowTrainsExplicit", "useRealtime", "itdDate", "itdTime"}
        |-> IF k = "mode" THEN "any" ELSE DomainOf(k)]

LineStopSchema ==
    [k \in {"outputFormat", "coordOutputFormat", "line", "allStopInfo"}
        |-> DomainOf(k)]

AdditionalInfoSchema ==
    [k \in {"outputFormat", "coordOutputFormat", "filterPublished",
            "filterValid", "filterDateValid"} |-> DomainOf(k)]

\* CommandTrip._get_params_schema
TripSchema ==
    [k \in {"outputFormat", "coordOutputFormat", "type_origin", "name_origin",
            "type_destination", "name_destination", "type_via", "name_via",
            "useUT", "useRealtime"} |->
        CASE k = "outputFormat" -> "rapidJSON"
          [] k = "coordOutputFormat" -> "coord"
          [] k \in {"type_origin", "type_destination", "type_via"} -> "anyOrCoord"
          [] k \in {"useUT", "useRealtime"} -> "flag"
          [] OTHER -> "str"]

\* Command._get_params_schema, by the command's name
ParamsSchema(name) ==
    CASE name = "XML_SERVINGLINES_REQUEST" -> ServingLinesSchema
      [] name = "XML_TRIP_REQUEST2" -> TripSchema
      [] name = "XML_SYSTEMINFO_REQUEST" -> SystemInfoSchema
      [] name = "XML_STOPFINDER_REQUEST" -> StopFinderSchema
      [] name = "XML_LINELIST_REQUEST" -> LineListSchema
      [] name = "XML_STOP_LIST_REQUEST" -> StopListSchema
      [] name = "XML_DM_REQUEST" -> DeparturesSchema
      [] name = "XML_LINESTOP_REQUEST" -> LineStopSchema
      [] OTHER -> AdditionalInfoSchema

\* dict.update({key: value}) on the parameters kept in insertion order
DictUpdate(params, key, value) ==
    IF \E i \in 1..Len(params) : params[i][1] = key
    THEN [i \in 1..Len(params) |->
             IF params[i][1] = key THEN <<key, value>> ELSE params[i]]
    ELSE Append(params, <<key, value>>)

\* a variant that accepts every key
add_param_any_key(cmd, key, value) ==
    [cmd EXCEPT !.params = DictUpdate(cmd.params, key, value)]

\* a variant that also holds the value against the domain of its key
add_param_checked(cmd, key, value) ==
    LET schema == ParamsSchema(cmd.name)
    IN  IF key \notin DOMAIN schema \/ ~InDomain(schema[key], value)
        THEN [cmd EXCEPT !.err = "EfaParameterError", !.err_key = key]
        ELSE [cmd EXCEPT !.params = DictUpdate(cmd.params, key, value)]

\* a variant that stores the text of the value
add_param_as_text(cmd, key, value) ==
    IF key \notin DOMAIN ParamsSchema(cmd.name)
    THEN [cmd EXCEPT !.err = "EfaParameterError", !.err_key = key]
    ELSE [cmd EXCEPT !.params =
             DictUpdate(cmd.params, key,
                        IF value.t = "bool" THEN StrV(IF value.v THEN "1" ELSE "0")
                        ELSE value)]

\* a variant that stores the pair before it looks at the schema
add_param_store_first(cmd, key, value) ==
    IF key \notin DOMAIN ParamsSchema(cmd.name)
    THEN [cmd EXCEPT !.params = DictUpdate(cmd.params, key, value),
                     !.err = "EfaParameterError", !.err_key = key]
    ELSE [cmd EXCEPT !.params = DictUpdate(cmd.params, key, value)]

\* Command.add_param(key, value): a key the schema does not declare raises
\* EfaParameterError; a declared key is stored with the value as given (the
\* value is not held against the domain the schema declares for the key)
add_param(cmd, key, value) ==
    IF key \notin DOMAIN ParamsSchema(cmd.name)
    THEN [cmd EXCEPT !.err = "EfaParameterError", !.err_key = key]
    ELSE [cmd EXCEPT !.params = DictUpdate(cmd.params, key, value)]

\* a variant that leaves the parameters empty
NewCommandEmpty(name, format) ==
    [err |-> "none", name |-> name, params |-> <<>>, err_key |-> ""]

\* Command.__init__(name, format): the name and the outputFormat parameter
NewCommand(name, format) ==
    add_param([err |-> "none", name |-> name, params |-> <<>>, err_key |-> ""],
              "outputFormat", StrV(format))

\* a variant that adds the first parameter only before the command is used
AddAllFirstOnly(cmd, pairs) ==
    IF pairs = <<>> \/ cmd.err # "none" THEN cmd
    ELSE add_param(cmd, Head(pairs)[1], Head(pairs)[2])

RECURSIVE AddAll(_, _)
\* the facade's add_param calls in order; the first error raised ends them
AddAll(cmd, pairs) ==
    IF pairs = <<>> \/ cmd.err # "none" THEN cmd
    ELSE AddAll(add_param(cmd, Head(pairs)[1], Head(pairs)[2]), Tail(pairs))

RECURSIVE IntToStr(_)
\* str(n) for an integer: its decimal digits, as a sequence of characters
IntToStr(n) ==
    LET digit(d) == <<"0", "1", "2", "3", "4", "5", "6", "7", "8", "9">>[d + 1]
    IN  IF n < 0 THEN <<"-">> \o IntToStr(0 - n)
        ELSE IF n < 10 THEN <<digit(n)>>
        ELSE IntToStr(n \div 10) \o <<digit(n % 10)>>

\* the text of a string, cut at each "&" it contains: the query string is
\* kept as pieces of text, the separators "?", "&" and "=" being pieces
Pieces(s) == IF s = "a&b" THEN <<"a", "&", "b">> ELSE <<s>>

\* str(value), as the pieces of text it is made of
ValueToStr(v) ==
    CASE v.t = "str"  -> Pieces(v.v)
      [] v.t = "int"  -> IntToStr(v.v)
      [] v.t = "bool" -> IF v.v THEN <<"True">> ELSE <<"False">>
      [] OTHER        -> <<"None">>

RECURSIVE ParamsToStrReversed(_)
\* a variant that emits the pairs last to first
ParamsToStrReversed(params) ==
    IF params = <<>> THEN <<>>
    ELSE ParamsToStrReversed(Tail(params))
         \o (IF Len(params) > 1 THEN <<"&">> ELSE <<>>)
         \o <<Head(params)[1], "=">> \o ValueToStr(Head(params)[2])

RECURSIVE ParamsToStrTrailing(_)
\* a variant that ends every pair with "&"
ParamsToStrTrailing(params) ==
    IF params = <<>> THEN <<>>
    ELSE <<Head(params)[1], "=">> \o ValueToStr(Head(params)[2]) \o <<"&">>
         \o ParamsToStrTrailing(Tail(params))

RECURSIVE ParamsToStr(_)
\* "&".join(f"{k}={v}" for each stored pair)
ParamsToStr(params) ==
    IF params = <<>> THEN <<>>
    ELSE <<Head(params)[1], "=">> \o ValueToStr(Head(params)[2])
         \o (IF Len(params) > 1 THEN <<"&">> ELSE <<>>)
         \o ParamsToStr(Tail(params))

\* str(command): name + "?" + the parameters
CommandToStr(cmd) == <<cmd.name, "?">> \o ParamsToStr(cmd.params)

\* EfaClient._build_url: self._base_url + str(cmd)
build_url(base_url, cmd) == base_url \o CommandToStr(cmd)

----------------------------------------------------------------------------
(* Responses and their parsing *)

\* a key a JSON object does not carry
Absent == [t |-> "absent"]

\* a list of a JSON object
ListV(items) == [t |-> "list", items |-> items]

\* dict.get(key, default) on a field that may be absent
Get(field, default) == IF field.t = "absent" THEN default ELSE field

\* the location items the modelled server answers with
LocationItems ==
    { [id |-> StrV("g1"), name |-> StrV("n1"),
       isGlobalId |-> BoolV(TRUE),
       properties |-> [t |-> "dict", stopId |-> StrV("s1"), other |-> FALSE],
       type |-> StrV("stop"), matchQuality |-> IntV(1), productClasses |-> Absent],
      [id |-> StrV("g2"), name |-> StrV("n2"),
       isGlobalId |-> BoolV(FALSE),
       properties |-> [t |-> "dict", stopId |-> StrV("s2"), other |-> TRUE],
       type |-> StrV("poi"), matchQuality |-> IntV(3), productClasses |-> Absent],
      [id |-> StrV("g3"), name |-> StrV("n3"),
       isGlobalId |-> Absent,
       properties |-> Absent,
       type |-> StrV("stop"), matchQuality |-> IntV(3), productClasses |-> Absent] }

\* the sequences over S of length at most n
SeqsUpTo(S, n) == UNION {[1..k -> S] : k \in 0..n}

\* the bodies a response with status 200 carries: the empty text, text that
\* is not JSON, an object without a result list that has the keys of a
\* system info ("version" and the others) or has not, or an object whose
\* result list holds at most MaxItems items
Bodies ==
    {[items |-> <<>>, json |-> FALSE, listed |-> FALSE, version |-> FALSE,
      empty |-> e] : e \in BOOLEAN}
    \cup {[items |-> <<>>, json |-> TRUE, listed |-> FALSE, version |-> v,
           empty |-> FALSE] : v \in BOOLEAN}
    \cup {[items |-> s, json |-> TRUE, listed |-> TRUE, version |-> FALSE,
           empty |-> FALSE] : s \in SeqsUpTo(LocationItems, MaxItems)}

\* the id of one location item (req_serving_lines.py, lines 28 to 32)
ResolveId(location) ==
    LET id == Get(location.id, StrV(""))
    IN  IF ~Truthy(Get(location.isGlobalId, BoolV(FALSE)))
           /\ Truthy(Get(location.properties, None))
        THEN Get(location.properties.stopId, None)
        ELSE id

\* the values of the StopType enumeration
StopTypeNames == {"stop", "poi", "address", "street", "locality", "unknown"}

\* the codes of the TransportType enumeration
TransportCodes == 0..19

\* StopType(value): the member of that value.  What the enumeration does
\* with a value it does not have is decided in data_classes.py, which is not
\* part of the sources: no response of the model carries such a value, and
\* the outcome for one is left open
StopTypeOf(v) == IF v.v \in StopTypeNames THEN v ELSE [t |-> "unsettled"]

\* TransportType(code): the member of that code; a code the enumeration
\* does not have is left open in the same way
TransportTypeOf(x) == IF x \in TransportCodes THEN IntV(x) ELSE [t |-> "unsettled"]

\* [TransportType(x) for x in location.get("productClasses", [])]
TransportsOf(location) ==
    LET codes == IF location.productClasses.t = "absent" THEN <<>>
                 ELSE location.productClasses.items
    IN  [k \in 1..Len(codes) |-> TransportTypeOf(codes[k])]

\* the dictionary built for one location item (lines 34 to 44)
StopDict(location) ==
    [id |-> ResolveId(location),
     name |-> Get(location.name, StrV("")),
     stop_type |-> StopTypeOf(Get(location.type, StrV(""))),
     transports |-> TransportsOf(location),
     match_quality |-> Get(location.matchQuality, IntV(0))]

RECURSIVE InsertDesc(_, _)
\* x put into a list sorted by descending match_quality, behind its equals
InsertDesc(sorted, x) ==
    IF sorted = <<>> THEN <<x>>
    ELSE IF Head(sorted).match_quality.v >= x.match_quality.v
         THEN <<Head(sorted)>> \o InsertDesc(Tail(sorted), x)
         ELSE <<x>> \o sorted

\* a variant that leaves the stops in the order of the response
KeepOrder(stops) == stops

RECURSIVE SortDesc(_)
\* sorted(stops, key=match_quality, reverse=True): stable, descending
SortDesc(stops) ==
    IF stops = <<>> THEN <<>>
    ELSE InsertDesc(SortDesc(SubSeq(stops, 1, Len(stops) - 1)), stops[Len(stops)])

\* a variant that decides where the ids come from once, by the first location
ParseLocationsOnce(items) ==
    LET idOf(location) ==
            IF ~Truthy(Get(items[1].isGlobalId, BoolV(FALSE)))
               /\ Truthy(Get(location.properties, None))
            THEN Get(location.properties.stopId, None)
            ELSE Get(location.id, StrV(""))
        stops == SortDesc([i \in 1..Len(items) |->
                              [StopDict(items[i]) EXCEPT !.id = idOf(items[i])]])
    IN  [i \in 1..Len(stops) |->
            [id |-> stops[i].id, name |-> stops[i].name, stop_type |-> stops[i].stop_type,
             transports |-> stops[i].transports, kind |-> "Stop"]]

\* ServingLinesRequest.parse: the locations, sorted by match quality
ParseLocations(items) ==
    LET stops == SortDesc([i \in 1..Len(items) |-> StopDict(items[i])])
    IN  [i \in 1..Len(stops) |->
            [id |-> stops[i].id, name |-> stops[i].name, stop_type |-> stops[i].stop_type,
             transports |-> stops[i].transports, kind |-> "Stop"]]

\* data.get(<list key>, []): the list of the response, empty when the
\* response has none
ItemsOf(body) == IF body.listed THEN body.items ELSE <<>>

\* a variant that keeps the first element only
ParseLinesFirst(items) ==
    [i \in 1..(IF Len(items) > 1 THEN 1 ELSE Len(items)) |->
        [id |-> Get(items[i].id, StrV("")), name |-> Get(items[i].name, StrV("")),
         kind |-> "Line"]]

\* CommandServingLines.parse: one Line per element, in the given order
ParseLines(items) ==
    [i \in 1..Len(items) |->
        [id |-> Get(items[i].id, StrV("")), name |-> Get(items[i].name, StrV("")),
         kind |-> "Line"]]

\* the parsers of the other list commands: one object per element, in order
ParseInOrder(kind, items) ==
    [i \in 1..Len(items) |->
        [id |-> Get(items[i].id, StrV("")), name |-> Get(items[i].name, StrV("")),
         kind |-> kind]]

\* the outcome of a parse: the error raised, the value returned, and the
\* error the response parser raised inside it ("none": it raised none,
\* "uncalled": it was not called)
Outcome(err, kind, items, parser) ==
    [err |-> err, items |-> items, kind |-> kind, parser |-> parser]

\* SystemInfo.from_dict on what the parser returned.  The parse of the
\* empty response text returns (info() with a _run_query that returns ""
\* returns, test_client.py, lines 39 to 47; no test looks at the value, kind
\* "unobserved"); None, {} and {"dummy": "value"} handed to the parse raise
\* EfaResponseInvalid (test_cmd_system_info.py, lines 40 to 43); an object
\* that has the keys of a system info gives the SystemInfo
SystemInfoOf(obj) ==
    IF obj.t = "empty"
    THEN Outcome("none", "unobserved", <<>>, "none")
    ELSE IF obj.t = "none" \/ ~obj.version
    THEN Outcome("EfaResponseInvalid", "None", <<>>, "none")
    ELSE Outcome("none", "SystemInfo", <<>>, "none")

\* command.parse(response): decode the text, then build the system info
\* from the object or map its items; the empty text is decoded to a mapping
\* without a result list (every facade method returns when _run_query
\* returns "", test_client.py, lines 51 to 65, 212 to 224, 351 to 368), any
\* other text that is not JSON raises EfaParseError
CommandParse(cmd, body) ==
    IF cmd.name = "XML_TRIP_REQUEST2"
    THEN \* CommandTrip.parse raises before it looks at the data
         [err |-> "NotImplementedError", items |-> <<>>, kind |-> "None"]
    ELSE IF ~body.json /\ ~body.empty
    THEN [err |-> "EfaParseError", items |-> <<>>, kind |-> "None"]
    ELSE CASE cmd.name = "XML_SYSTEMINFO_REQUEST" ->
                LET info == SystemInfoOf(IF body.empty THEN [t |-> "empty"]
                                         ELSE [t |-> "obj", version |-> body.version])
                IN  [err |-> info.err, items |-> info.items, kind |-> info.kind]
           [] cmd.name = "XML_STOPFINDER_REQUEST" ->
                [err |-> "none", items |-> ParseLocations(ItemsOf(body)), kind |-> "list"]
           [] cmd.name = "XML_SERVINGLINES_REQUEST" ->
                [err |-> "none", items |-> ParseLines(ItemsOf(body)), kind |-> "list"]
           [] cmd.name = "XML_LINELIST_REQUEST" ->
                [err |-> "none", items |-> ParseInOrder("Line", ItemsOf(body)), kind |-> "list"]
           [] cmd.name = "XML_DM_REQUEST" ->
                [err |-> "none", items |-> ParseInOrder("Departure", ItemsOf(body)),
                 kind |-> "list"]
           [] OTHER ->
                [err |-> "none", items |-> ParseInOrder("Location", ItemsOf(body)),
                 kind |-> "list"]

\* a variant that slices one item too many
PySliceOffByOne(seq, limit) ==
    IF limit.t = "none" THEN seq
    ELSE SubSeq(seq, 1, IF limit.v + 1 < Len(seq) THEN limit.v + 1 ELSE Len(seq))

\* the Python slice seq[:limit]
PySlice(seq, limit) ==
    IF limit.t = "none" THEN seq
    ELSE IF limit.v >= 0
         THEN SubSeq(seq, 1, IF limit.v < Len(seq) THEN limit.v ELSE Len(seq))
         ELSE SubSeq(seq, 1, IF Len(seq) + limit.v > 0 THEN Len(seq) + limit.v ELSE 0)

----------------------------------------------------------------------------
(* The facade operations.  Each is the part of the method that runs before *)
(* its GET: the error raised before a command exists (pre), the command    *)
(* with its parameters added in the method's order, and the limit the      *)
(* result is sliced to (None where the method does not slice).             *)
(* The arguments are one record: ident (the name, line or location), limit,*)
(* two flags f1 and f2, nums (the filters or request types), date, and kw, *)
(* the further keyword arguments of the method under their own names.      *)

Ops ==
    {"info", "locations_by_name", "location_by_coord", "list_lines", "list_stops",
     "trip", "departures_by_location", "lines_by_name", "lines_by_location",
     "line_stops", "additional_info_line", "additional_info_stop"}

Plan(pre, cmd, limit) == [cmd |-> cmd, limit |-> limit, pre |-> pre]

NoCommand == [err |-> "none", name |-> "", params |-> <<>>, err_key |-> ""]

\* the pairs for "if value: command.add_param(key, value)"
IfSet(key, value) == IF Truthy(value) THEN <<(<<key, value>>)>> ELSE <<>>

\* Command.add_param_datetime: itdDate and itdTime when a date is given
DatetimePairs(date) ==
    IF date.t = "none" THEN <<>>
    ELSE << <<"itdDate", StrV("YYYYMMDD")>>, <<"itdTime", StrV("HHMM")>> >>

info(format, a) ==
    Plan("none",
         AddAll(NewCommand("XML_SYSTEMINFO_REQUEST", format),
                << <<"coordOutputFormat", WGS84>> >>),
         None)

locations_by_name(format, a) ==
    IF ~Truthy(a.ident) THEN Plan("ValueError", NoCommand, None)
    ELSE Plan("none",
              AddAll(NewCommand("XML_STOPFINDER_REQUEST", format),
                     << <<"locationServerActive", IntV(1)>>,
                        <<"type_sf", StrV("any")>>,
                        <<"name_sf", a.ident>>,
                        <<"coordOutputFormat", WGS84>>,
                        <<"doNotSearchForStops_sf", BoolV(~a.f1)>> >>
                     \o (IF a.nums # <<>>
                         THEN << <<"anyObjFilter_sf", IntV(SumSeq(a.nums))>> >>
                         ELSE <<>>)),
              a.limit)

location_by_coord(format, a) ==
    Plan("none",
         AddAll(NewCommand("XML_STOPFINDER_REQUEST", format),
                << <<"locationServerActive", IntV(1)>>,
                   <<"type_sf", StrV("coord")>>,
                   <<"name_sf", StrV(ToString(a.kw.coord_x) \o ":"
                                     \o ToString(a.kw.coord_y) \o ":"
                                     \o a.kw.format)>>,
                   <<"coordOutputFormat", WGS84>>,
                   <<"doNotSearchForStops_sf", BoolV(~a.f1)>> >>),
         a.limit)

list_lines(format, a) ==
    Plan("none",
         AddAll(NewCommand("XML_LINELIST_REQUEST", format),
                << <<"coordOutputFormat", WGS84>> >>
                \o IfSet("lineListBranchCode", a.ident)
                \o IfSet("lineListNetBranchCode", a.kw.net_branch_code)
                \o IfSet("lineListSubnetwork", a.kw.sub_network)
                \o IfSet("lineListOMC", a.kw.list_omc)
                \o IfSet("lineListMixedLines", BoolV(a.f1))
                \o (IF ~a.f2 THEN << <<"mergeDir", BoolV(a.f2)>> >> ELSE <<>>)
                \o (IF a.nums # <<>>
                    THEN << <<"lineReqType", IntV(SumSeq(a.nums))>> >>
                    ELSE <<>>)),
         None)

list_stops(format, a) ==
    Plan("none",
         AddAll(NewCommand("XML_STOP_LIST_REQUEST", format),
                << <<"coordOutputFormat", WGS84>> >>
                \o IfSet("stopListOMC", a.ident)
                \o IfSet("stopListPlaceId", a.kw.place_id)
                \o IfSet("stopListOMCPlaceId", a.kw.omc_place_id)
                \o IfSet("rTN", a.kw.rtn)
                \o IfSet("stopListSubnetwork", a.kw.sub_network)
                \o IfSet("fromstop", a.kw.from_stop)
                \o IfSet("tostop", a.kw.to_stop)
                \o << <<"servingLines", BoolV(a.f1)>>,
                      <<"servingLinesMOTType", BoolV(a.kw.serving_lines_mot_type)>>,
                      <<"servingLinesMOTTypes", BoolV(a.kw.serving_lines_mot_types)>>,
                      <<"tariffZones", BoolV(a.f2)>> >>),
         None)

trip(format, a) == Plan("NotImplementedError", NoCommand, None)

\* a variant that asks for mode "direct" whatever the format
departures_by_location_direct(format, a) ==
    IF ~Truthy(a.ident) THEN Plan("ValueError", NoCommand, None)
    ELSE LET location == IF a.ident.t = "loc" THEN StrV(a.ident.id) ELSE a.ident
         IN  Plan("none",
                  AddAll(NewCommand("XML_DM_REQUEST", format),
                         << <<"locationServerActive", IntV(1)>>,
                            <<"coordOutputFormat", WGS84>>,
                            <<"name_dm", location>>,
                            <<"type_dm", StrV("any")>>,
                            <<"mode", StrV("direct")>>,
                            <<"useProxFootSearch", StrV("0")>>,
                            <<"useAllStops", StrV("1")>>,
                            <<"lsShowTrainsExplicit", StrV("1")>>,
                            <<"useRealtime", BoolV(a.f1)>> >>
                         \o DatetimePairs(a.date)),
                  a.limit)

departures_by_location(format, a) ==
    IF ~Truthy(a.ident) THEN Plan("ValueError", NoCommand, None)
    ELSE LET location == IF a.ident.t = "loc" THEN StrV(a.ident.id) ELSE a.ident
         IN  Plan("none",
                  AddAll(NewCommand("XML_DM_REQUEST", format),
                         << <<"locationServerActive", IntV(1)>>,
                            <<"coordOutputFormat", WGS84>>,
                            <<"name_dm", location>>,
                            <<"type_dm", StrV("any")>> >>
                         \o (IF format = "rapidJSON"
                             THEN << <<"mode", StrV("direct")>>,
                                     <<"useProxFootSearch", StrV("0")>> >>
                             ELSE << <<"mode", StrV("any")>> >>)
                         \o << <<"useAllStops", StrV("1")>>,
                               <<"lsShowTrainsExplicit", StrV("1")>>,
                               <<"useRealtime", BoolV(a.f1)>> >>
                         \o DatetimePairs(a.date)),
                  a.limit)

lines_by_name(format, a) ==
    IF ~Truthy(a.ident) THEN Plan("ValueError", NoCommand, None)
    ELSE Plan("none",
              AddAll(NewCommand("XML_SERVINGLINES_REQUEST", format),
                     << <<"mode", StrV("line")>>,
                        <<"lineName", a.ident>>,
                        <<"locationServerActive", IntV(1)>>,
                        <<"mergeDir", BoolV(a.f1)>>,
                        <<"lsShowTrainsExplicit", BoolV(a.f2)>>,
                        <<"coordOutputFormat", WGS84>> >>),
              None)

\* a variant that takes a Location of any type
lines_by_location_any_type(format, a) ==
    IF ~Truthy(a.ident) THEN Plan("ValueError", NoCommand, None)
    ELSE LET location == IF a.ident.t = "loc" THEN StrV(a.ident.id) ELSE a.ident
         IN  Plan("none",
                  AddAll(NewCommand("XML_SERVINGLINES_REQUEST", format),
                         << <<"mode", StrV("odv")>>,
                            <<"locationServerActive", IntV(1)>>,
                            <<"type_sl", StrV("stopID")>>,
                            <<"name_sl", location>>,
                            <<"mergeDir", BoolV(a.f1)>>,
                            <<"lsShowTrainsExplicit", BoolV(a.f2)>>,
                            <<"coordOutputFormat", WGS84>> >>),
                  None)

lines_by_location(format, a) ==
    IF ~Truthy(a.ident) THEN Plan("ValueError", NoCommand, None)
    ELSE IF a.ident.t = "loc" /\ a.ident.loc_type # "stop"
    THEN Plan("ValueError", NoCommand, None)
    ELSE LET location == IF a.ident.t = "loc" THEN StrV(a.ident.id) ELSE a.ident
         IN  Plan("none",
                  AddAll(NewCommand("XML_SERVINGLINES_REQUEST", format),
                         << <<"mode", StrV("odv")>>,
                            <<"locationServerActive", IntV(1)>>,
                            <<"type_sl", StrV("stopID")>>,
                            <<"name_sl", location>>,
                            <<"mergeDir", BoolV(a.f1)>>,
                            <<"lsShowTrainsExplicit", BoolV(a.f2)>>,
                            <<"coordOutputFormat", WGS84>> >>
                         \o (IF a.nums # <<>>
                             THEN << <<"lineReqType", IntV(SumSeq(a.nums))>> >>
                             ELSE <<>>)),
                  None)

line_stops(format, a) ==
    IF ~Truthy(a.ident) THEN Plan("ValueError", NoCommand, None)
    ELSE Plan("none",
              AddAll(NewCommand("XML_LINESTOP_REQUEST", format),
                     << <<"coordOutputFormat", WGS84>>,
                        <<"line", a.ident>>,
                        <<"allStopInfo", BoolV(a.f1)>> >>),
              None)

additional_info_line(format, a) ==
    Plan("none",
         AddAll(NewCommand("XML_ADDINFO_REQUEST", format),
                << <<"coordOutputFormat", WGS84>> >>
                \o (IF ~a.f1 THEN << <<"filterPublished", StrV("1")>> >> ELSE <<>>)
                \o (IF a.f2 THEN << <<"filterValid", StrV("1")>> >> ELSE <<>>)
                \o IfSet("filterDateValid", a.date)),
         None)

\* "pass": the method returns None without raising
additional_info_stop(format, a) == Plan("return", NoCommand, None)

\* the method of the facade that op names
Facade(op, format, a) ==
    CASE op = "info" -> info(format, a)
      [] op = "locations_by_name" -> locations_by_name(format, a)
      [] op = "location_by_coord" -> location_by_coord(format, a)
      [] op = "list_lines" -> list_lines(format, a)
      [] op = "list_stops" -> list_stops(format, a)
      [] op = "trip" -> trip(format, a)
      [] op = "departures_by_location" -> departures_by_location(format, a)
      [] op = "lines_by_name" -> lines_by_name(format, a)
      [] op = "lines_by_location" -> lines_by_location(format, a)
      [] op = "line_stops" -> line_stops(format, a)
      [] op = "additional_info_line" -> additional_info_line(format, a)
      [] OTHER -> additional_info_stop(format, a)

----------------------------------------------------------------------------
(* The transport *)

\* the HTTP statuses the modelled server answers with
Statuses == {200, 204, 400, 500}

\* a variant that takes every 2xx status for a success
run_query_2xx(status, body) ==
    IF status >= 200 /\ status < 300
    THEN [err |-> "none", status |-> status, text |-> body]
    ELSE [err |-> "EfaConnectionError", status |-> status, text |-> None]

\* a variant that raises for server errors only
run_query_5xx(status, body) ==
    IF status < 500
    THEN [err |-> "none", status |-> status, text |-> body]
    ELSE [err |-> "EfaConnectionError", status |-> status, text |-> None]

\* a variant that logs a failed status and returns the body all the same
run_query_swallow(status, body) ==
    [err |-> "none", status |-> status, text |-> body]

\* EfaClient._run_query once the response is there: the text for status 200,
\* EfaConnectionError carrying the status otherwise
run_query(status, body) ==
    IF status = 200
    THEN [err |-> "none", status |-> status, text |-> body]
    ELSE [err |-> "EfaConnectionError", status |-> status, text |-> None]

----------------------------------------------------------------------------
(* The arguments callers invoke the facade with *)

\* the keyword arguments that only one or two methods take, at the defaults
\* of the signatures: the coordinates and the format of location_by_coord
\* (CoordFormat.WGS84 by default), the filters of list_lines and list_stops
Keywords ==
    [format |-> "WGS84[dd.ddddd]", coord_x |-> 0, coord_y |-> 0,
     net_branch_code |-> None, sub_network |-> None, list_omc |-> None,
     place_id |-> None, omc_place_id |-> None, rtn |-> None,
     from_stop |-> None, to_stop |-> None,
     serving_lines_mot_type |-> TRUE, serving_lines_mot_types |-> FALSE]

Args(ident, limit, f1, f2, nums, date) ==
    [limit |-> limit, date |-> date, ident |-> ident, f1 |-> f1, nums |-> nums,
     kw |-> Keywords, f2 |-> f2]

Limits == {IntV(n) : n \in -1..MaxLimit}

TopLimit == IntV(MaxLimit)

ArgsOf(op) ==
    CASE op = "locations_by_name" ->
           {Args(i, TopLimit, FALSE, FALSE, <<>>, None) : i \in {None, StrV("")}}
           \cup {Args(StrV("a"), l, FALSE, FALSE, <<>>, None) : l \in Limits}
           \cup {Args(StrV("a"), TopLimit, f, FALSE, n, None) :
                    f \in BOOLEAN, n \in {<<1, 2>>, <<64, 64>>}}
      [] op = "location_by_coord" ->
           {Args(None, l, FALSE, FALSE, <<>>, None) : l \in Limits}
           \cup {Args(None, TopLimit, TRUE, FALSE, <<>>, None)}
           \cup {[Args(None, TopLimit, FALSE, FALSE, <<>>, None) EXCEPT !.kw = kw] :
                    kw \in {[Keywords EXCEPT !.coord_x = 0 - 1, !.coord_y = 1],
                            [Keywords EXCEPT !.format = "myFormat"]}}
      [] op = "list_lines" ->
           {Args(None, None, FALSE, TRUE, <<>>, None),
            Args(StrV("a"), None, TRUE, FALSE, <<1, 2>>, None),
            Args(StrV("a"), None, FALSE, TRUE, <<16, 16>>, None),
            [Args(None, None, FALSE, TRUE, <<>>, None) EXCEPT !.kw =
                 [Keywords EXCEPT !.net_branch_code = StrV("n")]],
            [Args(None, None, FALSE, TRUE, <<>>, None) EXCEPT !.kw =
                 [Keywords EXCEPT !.sub_network = StrV("s"),
                                  !.list_omc = StrV("o")]]}
      [] op = "list_stops" ->
           {Args(None, None, TRUE, TRUE, <<>>, None),
            Args(StrV("a"), None, FALSE, TRUE, <<>>, None),
            [Args(None, None, TRUE, TRUE, <<>>, None) EXCEPT !.kw =
                 [Keywords EXCEPT !.omc_place_id = StrV("p"), !.rtn = StrV("r"),
                                  !.sub_network = StrV("s"),
                                  !.from_stop = StrV("f"), !.to_stop = StrV("t")]],
            [Args(None, None, TRUE, FALSE, <<>>, None) EXCEPT !.kw =
                 [Keywords EXCEPT !.place_id = StrV("p"),
                                  !.serving_lines_mot_type = FALSE,
                                  !.serving_lines_mot_types = TRUE]]}
      [] op = "departures_by_location" ->
           {Args(i, TopLimit, TRUE, FALSE, <<>>, None) :
                i \in {None, StrV(""), Loc("b", "stop")}}
           \cup {Args(StrV("a"), l, TRUE, FALSE, <<>>, None) : l \in Limits}
           \cup {Args(StrV("a"), TopLimit, FALSE, FALSE, <<>>, StrV("d"))}
      [] op = "lines_by_name" ->
           {Args(None, None, FALSE, FALSE, <<>>, None),
            Args(StrV("a"), None, FALSE, FALSE, <<>>, None),
            Args(StrV("b"), None, TRUE, TRUE, <<>>, None)}
      [] op = "lines_by_location" ->
           {Args(i, None, FALSE, FALSE, <<>>, None) :
                i \in {None, StrV(""), Loc("b", "stop"), Loc("c", "poi"),
                       Loc("d", "unknown")}}
           \cup {Args(StrV("a"), None, FALSE, TRUE, n, None) :
                    n \in {<<>>, <<1, 2>>, <<16, 16>>}}
      [] op = "line_stops" ->
           {Args(StrV(""), None, FALSE, FALSE, <<>>, None),
            Args(StrV("a"), None, FALSE, FALSE, <<>>, None),
            Args(StrV("a"), None, TRUE, FALSE, <<>>, None)}
      [] op = "additional_info_line" ->
           {Args(None, None, FALSE, FALSE, <<>>, None),
            Args(None, None, FALSE, TRUE, <<>>, None),
            Args(None, None, TRUE, TRUE, <<>>, StrV("d"))}
      [] OTHER -> {Args(None, None, FALSE, FALSE, <<>>, None)}

----------------------------------------------------------------------------
(* The state machine *)

\* the tasks that call the facade concurrently
Tasks == {1, 2}

Idle == [pc |-> "idle"]

NoRet == [task |-> 0]

NoResult == [items |-> <<>>, kind |-> "None"]

\* the last call made on the command: add_param(key, value) or str(), the
\* error it raised, the parameters before it, the text str() returned, and
\* the number of add_param calls made so far
LastCall(op, key, value, raised, before, text, n) ==
    [n |-> n, key |-> key, value |-> value, op |-> op,
     text |-> text, raised |-> raised, before |-> before]

\* no call was made on the command yet
NoLast == LastCall("none", "", None, "none", <<>>, <<>>, 0)

\* no parser ran yet
NoStops == [op |-> "none"]

\* the record of a finished invocation: the error it raised and the status
\* that error names, the status and body the transport delivered (http 0:
\* none), the text _run_query returned, the url its GET asked for, the
\* number of GETs it issued, whether its parser ran, and its result
Ret(t, op, a) ==
    [url |-> <<>>, err |-> "none", err_key |-> "", body |-> None, op |-> op,
     text |-> None, task |-> t, args |-> a, err_status |-> 0, http |-> 0,
     gets |-> 0, parsed |-> FALSE, result |-> NoResult]

Init ==
    /\ infoKeys = FacadeInfoKeys
    /\ client = NoClient
    /\ sessions = <<>>
    /\ calls = [t \in Tasks |-> Idle]
    /\ nCalls = 0
    /\ nGets = 0
    /\ ret = NoRet
    /\ command = NoCommand
    /\ lastCall = NoLast
    /\ locations = <<>>
    /\ parseOut = NoStops
    /\ data = None

\* EfaClient(url, debug, format)
Construct(url, debug, format) ==
    /\ client.state = "none"
    /\ LET outcome == InitOutcome(url, format)
       IN  client' =
             IF outcome = "ok"
             THEN [client EXCEPT !.state = "ready", !.debug = debug,
                                 !.format = format,
                                 !.base_url = NormalizeUrl(url.v),
                                 !.url_arg = url, !.format_arg = format]
             ELSE [client EXCEPT !.state = "failed", !.err = outcome,
                                 !.url_arg = url, !.format_arg = format]
    /\ ret' = NoRet
    /\ UNCHANGED <<sessions, calls, nCalls, nGets>>
    /\ UNCHANGED <<commandVars, parseVars>>

\* EfaClient.__aenter__: a new transport session takes the place of the one
\* the client holds, whatever state the client is in; a session it replaces
\* stays as it is
Enter ==
    /\ client.state \in {"ready", "entered", "exited"}
    /\ Len(sessions) < MaxScopes
    /\ sessions' = Append(sessions, [open |-> TRUE, releases |-> 0])
    /\ client' = [client EXCEPT !.state = "entered", !.session = Len(sessions) + 1]
    /\ ret' = NoRet
    /\ UNCHANGED <<calls, nCalls, nGets>>
    /\ UNCHANGED <<commandVars, parseVars>>

\* the session after its __aexit__(*args): closed, whatever the arguments
SessionExit(session, exc) ==
    [open |-> FALSE, releases |-> session.releases + 1]

\* EfaClient.__aexit__, on normal completion of the scope (exc = FALSE) or
\* with an error raised inside it (exc = TRUE): the __aexit__ of the session
\* the client holds, whether the scope is entered or was left before (a
\* client that never was entered holds no session: the call raises
\* AttributeError and changes nothing)
Exit(exc) ==
    /\ client.state \in {"entered", "exited"}
    /\ sessions[client.session].releases < MaxReleases
    /\ sessions' = [sessions EXCEPT ![client.session] = SessionExit(@, exc)]
    /\ client' = [client EXCEPT !.state = "exited", !.exit_exc = exc]
    /\ ret' = NoRet
    /\ UNCHANGED <<calls, nCalls, nGets>>
    /\ UNCHANGED <<commandVars, parseVars>>

\* a variant that keeps the command on the client: a resumed call finds the
\* command of the call that started last
LatestCommand(cs, t) ==
    LET sent == {u \in DOMAIN cs : cs[u].pc # "idle"}
        last == CHOOSE u \in sent : \A w \in sent : cs[w].seq <= cs[u].seq
    IN  cs[last].cmd

\* the command whose parse a resumed call runs: the one that call built
OwnCommand(cs, t) == cs[t].cmd

\* a facade method from its call up to its GET (or to the error before it)
Invoke(t, op, a) ==
    /\ client.state \in {"ready", "entered", "exited"}
    /\ calls[t].pc = "idle"
    /\ nCalls < MaxCalls
    /\ nCalls' = nCalls + 1
    /\ \E plan \in {Facade(op, client.format, a)} :
         \E url \in {build_url(client.base_url, plan.cmd)} :
           IF plan.pre = "return"
           THEN /\ ret' = Ret(t, op, a)
                /\ UNCHANGED <<calls, nGets>>
           ELSE IF plan.pre # "none"
           THEN /\ ret' = [Ret(t, op, a) EXCEPT !.err = plan.pre]
                /\ UNCHANGED <<calls, nGets>>
           ELSE IF plan.cmd.err # "none"
           THEN /\ ret' = [Ret(t, op, a) EXCEPT !.err = plan.cmd.err,
                                                !.err_key = plan.cmd.err_key]
                /\ UNCHANGED <<calls, nGets>>
           ELSE IF client.state = "ready"
           THEN \* no session was ever created: self._client_session is missing
                /\ ret' = [Ret(t, op, a) EXCEPT !.err = "AttributeError", !.url = url]
                /\ UNCHANGED <<calls, nGets>>
           ELSE IF ~sessions[client.session].open
           THEN \* the session is closed: its get() raises
                /\ ret' = [Ret(t, op, a) EXCEPT !.err = "RuntimeError", !.url = url]
                /\ UNCHANGED <<calls, nGets>>
           ELSE /\ calls' = [calls EXCEPT ![t] =
                               [pc |-> "sent", op |-> op, args |-> a,
                                cmd |-> plan.cmd, limit |-> plan.limit, url |-> url,
                                sess |-> client.session, gets |-> 1,
                                seq |-> nCalls + 1]]
                /\ nGets' = nGets + 1
                /\ ret' = NoRet
    /\ UNCHANGED <<client, sessions>>
    /\ UNCHANGED <<commandVars, parseVars>>

\* _run_query when the response of its GET arrives: a status other than 200
\* raises EfaConnectionError and ends the method; with status 200 it awaits
\* the text of the response
Respond(t, status, body) ==
    /\ calls[t].pc = "sent"
    /\ sessions[calls[t].sess].open
    /\ \E c \in {calls[t]}, q \in {run_query(status, body)} :
         IF q.err # "none"
         THEN /\ ret' = [Ret(t, c.op, c.args) EXCEPT
                           !.http = status, !.body = body, !.url = c.url,
                           !.gets = c.gets, !.text = q.text,
                           !.err = q.err, !.err_status = q.status]
              /\ calls' = [calls EXCEPT ![t] = Idle]
         ELSE /\ ret' = NoRet
              /\ calls' = [calls EXCEPT ![t] =
                             [pc |-> "reading", op |-> c.op, args |-> c.args,
                              cmd |-> c.cmd, limit |-> c.limit, url |-> c.url,
                              sess |-> c.sess, gets |-> c.gets, seq |-> c.seq,
                              status |-> q.status, text |-> q.text]]
    /\ UNCHANGED <<client, sessions, nCalls, nGets>>
    /\ UNCHANGED <<commandVars, parseVars>>

\* the text of the response is there: _run_query returns it, and the method
\* parses it, slices the result and returns
ReadText(t) ==
    /\ calls[t].pc = "reading"
    /\ sessions[calls[t].sess].open
    /\ \E c \in {calls[t]} :
         \E r \in {[Ret(t, c.op, c.args) EXCEPT !.http = c.status, !.body = c.text,
                                                !.url = c.url, !.gets = c.gets,
                                                !.text = c.text]},
            parsed \in {CommandParse(OwnCommand(calls, t), c.text)} :
           IF parsed.err # "none"
           THEN ret' = [r EXCEPT !.err = parsed.err, !.parsed = TRUE]
           ELSE ret' = [r EXCEPT !.parsed = TRUE,
                                 !.result =
                                    [kind |-> parsed.kind,
                                     items |-> IF c.limit.t = "none"
                                               THEN parsed.items
                                               ELSE PySlice(parsed.items, c.limit)]]
    /\ calls' = [calls EXCEPT ![t] = Idle]
    /\ UNCHANGED <<client, sessions, nCalls, nGets>>
    /\ UNCHANGED <<commandVars, parseVars>>

\* the GET, or the read of the text after status 200, raises instead of
\* answering (a timeout, a connection that broke or was closed): the error
\* leaves _run_query as it is
TransportFails(t) ==
    /\ calls[t].pc \in {"sent", "reading"}
    /\ ret' = [Ret(t, calls[t].op, calls[t].args) EXCEPT
                  !.err = "TransportError", !.url = calls[t].url,
                  !.gets = calls[t].gets,
                  !.http = IF calls[t].pc = "reading" THEN calls[t].status ELSE 0]
    /\ calls' = [calls EXCEPT ![t] = Idle]
    /\ UNCHANGED <<client, sessions, nCalls, nGets>>
    /\ UNCHANGED <<commandVars, parseVars>>

\* the responses of the modelled server: a body with status 200, and the
\* other statuses with a body the client never reads
Responses ==
    {[status |-> 200, body |-> b] : b \in Bodies}
    \cup {[status |-> st, body |-> [json |-> FALSE, items |-> <<>>, listed |-> FALSE,
                                   version |-> FALSE, empty |-> FALSE]] :
             st \in Statuses \ {200}}

\* the client after EfaClient("h"): the state the facade's callers start from
ReadyClient ==
    [NoClient EXCEPT !.state = "ready", !.format = "rapidJSON",
                     !.base_url = NormalizeUrl(<<"h">>),
                     !.url_arg = [t |-> "url", v |-> <<"h">>],
                     !.format_arg = "rapidJSON"]

InitReady ==
    /\ infoKeys = FacadeInfoKeys
    /\ client = ReadyClient
    /\ sessions = <<>>
    /\ calls = [t \in Tasks |-> Idle]
    /\ nCalls = 0
    /\ nGets = 0
    /\ ret = NoRet
    /\ command = NoCommand
    /\ lastCall = NoLast
    /\ locations = <<>>
    /\ parseOut = NoStops
    /\ data = None

\* Spec: the client from its construction on, with every constructor input,
\* scopes entered and left, and two tasks calling a few operations
LifeOps == {"info", "trip", "additional_info_stop", "lines_by_name"}

LifeResponses ==
    {r \in Responses : r.status # 200 \/ Len(r.body.items) = 0}

Next ==
    \/ \E url \in UrlInputs, debug \in BOOLEAN, format \in FormatInputs :
          Construct(url, debug, format)
    \/ Enter
    \/ \E exc \in BOOLEAN : Exit(exc)
    \/ \E t \in Tasks, op \in LifeOps : \E a \in ArgsOf(op) : Invoke(t, op, a)
    \/ \E t \in Tasks, r \in LifeResponses : Respond(t, r.status, r.body)
    \/ \E t \in Tasks : ReadText(t)
    \/ \E t \in Tasks : TransportFails(t)

Spec == Init /\ [][Next]_vars

\* SpecFacade: one caller, every operation with every argument and response
NextFacade ==
    \/ Enter
    \/ \E exc \in BOOLEAN : Exit(exc)
    \/ \E op \in Ops : \E a \in ArgsOf(op) : Invoke(1, op, a)
    \/ \E r \in Responses : Respond(1, r.status, r.body)
    \/ ReadText(1)
    \/ TransportFails(1)

SpecFacade == InitReady /\ [][NextFacade]_vars

\* SpecSchemas: one caller and every operation, on a client whose
\* CommandSystemInfo declares the keys the facade adds or, like the
\* SystemInfoRequest of the sources, outputFormat alone (the module of the
\* command is not part of the sources)
InitSchemas ==
    /\ infoKeys \in {FacadeInfoKeys, RequestInfoKeys}
    /\ client = ReadyClient
    /\ sessions = <<>>
    /\ calls = [t \in Tasks |-> Idle]
    /\ nCalls = 0
    /\ nGets = 0
    /\ ret = NoRet
    /\ command = NoCommand
    /\ lastCall = NoLast
    /\ locations = <<>>
    /\ parseOut = NoStops
    /\ data = None

SpecSchemas ==
    /\ InitSchemas
    /\ [][\/ Enter
          \/ \E exc \in BOOLEAN : Exit(exc)
          \/ \E op \in Ops : \E a \in ArgsOf(op) : Invoke(1, op, a)
          \/ \E r \in LifeResponses : Respond(1, r.status, r.body)
          \/ ReadText(1)
          \/ TransportFails(1)]_vars

\* SpecConcurrent: two tasks whose calls overlap, inside one scope
ConcOps == {"locations_by_name", "departures_by_location", "lines_by_location"}

ConcArgs(op) == {a \in ArgsOf(op) : a.limit \in {None, IntV(1)} \/ a.nums # <<>>}

ConcResponses ==
    {r \in Responses : r.status \in {200, 400} /\ (r.status = 200 => Len(r.body.items) = MaxItems)}

NextConcurrent ==
    \/ Enter
    \/ \E t \in Tasks, op \in ConcOps : \E a \in ConcArgs(op) : Invoke(t, op, a)
    \/ \E t \in Tasks, r \in ConcResponses : Respond(t, r.status, r.body)
    \/ \E t \in Tasks : ReadText(t)
    \/ \E t \in Tasks : TransportFails(t)

SpecConcurrent == InitReady /\ [][NextConcurrent]_vars

----------------------------------------------------------------------------
(* SpecCommand: one command of any operation, built on its own: parameters *)
(* are added to it and it is serialized                                    *)

\* the names of the commands
CommandNames ==
    {"XML_SERVINGLINES_REQUEST", "XML_TRIP_REQUEST2", "XML_SYSTEMINFO_REQUEST",
     "XML_STOPFINDER_REQUEST", "XML_LINELIST_REQUEST", "XML_STOP_LIST_REQUEST",
     "XML_DM_REQUEST", "XML_LINESTOP_REQUEST", "XML_ADDINFO_REQUEST"}

\* keys callers try that some or all commands do not declare
KeysTried == {"param", "name", "dummy", "itdDate", "itdTime", "name_sf"}

\* the values callers try for a key of domain dom: "any_value", and values
\* inside and outside the domain
ValuesTried(dom) ==
    {StrV("any_value")} \cup
    CASE dom = "rapidJSON" -> {StrV("rapidJSON")}
      [] dom = "coord" -> {WGS84}
      [] dom = "flag" -> {StrV("0"), IntV(1), BoolV(TRUE), IntV(2)}
      [] dom = "mode" -> {StrV("odv")}
      [] dom = "stopID" -> {StrV("stopID")}
      [] dom = "anyOrCoord" -> {StrV("coord")}
      [] dom = "lineReqType" ->
             {IntV(0 - 1), IntV(LineRequestTypeSum), IntV(LineRequestTypeSum + 1)}
      [] dom = "locFilter" -> {IntV(LocationFilterSum), IntV(LocationFilterSum + 1)}
      [] OTHER -> {StrV("a&b")}

\* the add_param calls tried on the command called name
PairsTried(name) ==
    LET schema == ParamsSchema(name)
    IN  UNION {{<<k, v>> : v \in ValuesTried(schema[k])} : k \in DOMAIN schema}
        \cup {<<k, v>> : k \in KeysTried \ DOMAIN schema,
                          v \in {StrV("any_value"), IntV(1)}}

\* a command just constructed with the format the client supports
InitCommand ==
    /\ infoKeys = FacadeInfoKeys
    /\ client = NoClient
    /\ sessions = <<>>
    /\ calls = [t \in Tasks |-> Idle]
    /\ nCalls = 0
    /\ nGets = 0
    /\ ret = NoRet
    /\ command \in {NewCommand(name, "rapidJSON") : name \in CommandNames}
    /\ lastCall = NoLast
    /\ locations = <<>>
    /\ parseOut = NoStops
    /\ data = None

\* command.add_param(key, value): the command is as the call leaves it,
\* whether it returned or raised
AddParam(key, value) ==
    /\ lastCall.n < MaxParams
    /\ \E r \in {add_param(command, key, value)} :
          /\ command' = [r EXCEPT !.err = "none", !.err_key = ""]
          /\ lastCall' = LastCall("add", key, value, r.err, command.params, <<>>,
                                  lastCall.n + 1)
    /\ UNCHANGED <<infoKeys, facadeVars, parseVars>>

\* str(command)
Serialize ==
    /\ lastCall.op # "str"
    /\ lastCall' = LastCall("str", "", None, "none", command.params,
                            CommandToStr(command), lastCall.n)
    /\ UNCHANGED <<command, infoKeys, facadeVars, parseVars>>

NextCommand ==
    \/ \E kv \in PairsTried(command.name) : AddParam(kv[1], kv[2])
    \/ Serialize

SpecCommand == InitCommand /\ [][NextCommand]_vars

----------------------------------------------------------------------------
(* The parser of a location search, run on its own *)

\* the name, the id and the stop id of the location with match quality q
QualityName(q) == <<"n0", "n1", "n2", "n3", "n4", "n5">>[q + 1]
QualityId(q) == <<"g0", "g1", "g2", "g3", "g4", "g5">>[q + 1]
QualityStopId(q) == <<"s0", "s1", "s2", "s3", "s4", "s5">>[q + 1]

\* the "properties" a location carries: none, an empty object, an object
\* without a stopId, an object with one
PropertiesTried(q) ==
    {Absent,
     [t |-> "dict", stopId |-> Absent, other |-> FALSE],
     [t |-> "dict", stopId |-> Absent, other |-> TRUE],
     [t |-> "dict", stopId |-> StrV(QualityStopId(q)), other |-> FALSE]}

\* the locations of the responses parsed: every match quality up to
\* MaxQuality (a location of quality 0 carries no matchQuality), with the
\* isGlobalId flag true, false or missing
ParsedItems ==
    UNION {{[id |-> StrV(QualityId(q)), name |-> StrV(QualityName(q)),
             isGlobalId |-> g, properties |-> pr, type |-> StrV("stop"),
             matchQuality |-> IF q = 0 THEN Absent ELSE IntV(q),
             productClasses |-> Absent] :
               g \in {BoolV(TRUE), BoolV(FALSE), Absent}, pr \in PropertiesTried(q)} :
           q \in 0..MaxQuality}

\* a response object: whether it has the key "version" (and the other keys
\* a system info needs), whether it has a key "dummy", and its result list
Obj(version, dummy, list) ==
    [t |-> "obj", version |-> version, dummy |-> dummy, list |-> list]

\* a response of at most MaxItems locations, not yet parsed: the decoded
\* object with its "version" and its "locations"; the responses that lack
\* one of the two are tried without locations
InitParse ==
    /\ infoKeys = FacadeInfoKeys
    /\ client = NoClient
    /\ sessions = <<>>
    /\ calls = [t \in Tasks |-> Idle]
    /\ nCalls = 0
    /\ nGets = 0
    /\ ret = NoRet
    /\ command = NoCommand
    /\ lastCall = NoLast
    /\ locations \in SeqsUpTo(ParsedItems, MaxItems)
    /\ parseOut = NoStops
    /\ data \in {Obj(TRUE, FALSE, ListV(locations))}
                 \cup (IF locations = <<>>
                       THEN {Obj(FALSE, FALSE, ListV(<<>>)), Obj(TRUE, FALSE, Absent),
                             Obj(FALSE, FALSE, Absent)}
                       ELSE {})

\* request.parse(data) on the response: _validate_response(data) holds it
\* against the response schema, which requires "version" and a list
\* "locations" (lines 83 to 90; the error it raises is named by the
\* specification, the schema of one location is in schemas.py and not part
\* of the sources: the locations tried carry each field with the type the
\* parse reads it as); then data.get("locations", []) is mapped and sorted
Parse ==
    /\ parseOut.op = "none"
    /\ parseOut' = IF ~data.version \/ data.list.t = "absent"
                    THEN [err |-> "EfaResponseInvalid", stops |-> <<>>, op |-> "parse"]
                    ELSE [err |-> "none", stops |-> ParseLocations(data.list.items),
                          op |-> "parse"]
    /\ UNCHANGED <<locations, data, facadeVars, commandVars>>

SpecParse == InitParse /\ [][Parse]_vars

----------------------------------------------------------------------------
(* The parse of a command, run on its own on any input *)

\* a response text: text that is JSON and the object it decodes to, or text
\* that is not
Text(json, obj) == [t |-> "text", json |-> json, obj |-> obj]

\* the response objects tried: {} and {"dummy": "value"} among them
ObjsTried ==
    {Obj(v, d, l) : v \in BOOLEAN, d \in BOOLEAN,
                    l \in {Absent} \cup {ListV(s) : s \in SeqsUpTo(LocationItems, MaxItems)}}

\* the inputs handed to the parse of the command called name: True, 123,
\* the empty text, texts and objects; None for the system info, the one
\* command for which the tests say what None does
DataTried(name) ==
    {BoolV(TRUE), IntV(123), [t |-> "empty"], Text(FALSE, Absent)}
    \cup {Text(TRUE, o) : o \in ObjsTried}
    \cup ObjsTried
    \cup (IF name = "XML_SYSTEMINFO_REQUEST" THEN {None} ELSE {})

\* RapidJsonParser.parse: a text is decoded (the empty text to a mapping
\* without keys of its own kind, "empty"), an object or None is passed on,
\* any other value is a TypeError
Decode(d) ==
    CASE d.t \in {"bool", "int"} -> [err |-> "TypeError", obj |-> None]
      [] d.t = "text" -> IF d.json THEN [err |-> "none", obj |-> d.obj]
                         ELSE [err |-> "EfaParseError", obj |-> None]
      [] OTHER -> [err |-> "none", obj |-> d]

\* data.get(<list key>, []) on a decoded object
ListOf(obj) ==
    IF obj.t = "empty" \/ obj.list.t = "absent" THEN <<>> ELSE obj.list.items

\* the list a command other than the system info maps the decoded object to
ListOutcome(cmd, obj) ==
    LET r == CommandParse(cmd, [items |-> ListOf(obj), json |-> obj.t # "empty",
                                listed |-> obj.t # "empty" /\ obj.list.t # "absent",
                                version |-> obj.t # "empty" /\ obj.version,
                                empty |-> obj.t = "empty"])
    IN  Outcome(r.err, r.kind, r.items, "none")

\* a variant whose trip command hands the data to the parser like the others
ParseDataTripDecodes(cmd, d) ==
    LET dec == Decode(d)
    IN  IF dec.err # "none" THEN Outcome(dec.err, "None", <<>>, dec.err)
        ELSE IF cmd.name = "XML_SYSTEMINFO_REQUEST" THEN SystemInfoOf(dec.obj)
        ELSE ListOutcome(cmd, dec.obj)

\* a variant that answers an error of the parser with an empty list
ParseDataRecover(cmd, d) ==
    IF cmd.name = "XML_TRIP_REQUEST2"
    THEN Outcome("NotImplementedError", "None", <<>>, "uncalled")
    ELSE LET dec == Decode(d)
         IN  IF dec.err # "none" THEN Outcome("none", "list", <<>>, dec.err)
             ELSE IF cmd.name = "XML_SYSTEMINFO_REQUEST" THEN SystemInfoOf(dec.obj)
             ELSE ListOutcome(cmd, dec.obj)

\* command.parse(data): CommandTrip raises at once; the others hand the data
\* to the response parser, whose error leaves the parse as it is; the system
\* info is built from an object that has its keys, the lists are mapped
\* item by item
ParseData(cmd, d) ==
    IF cmd.name = "XML_TRIP_REQUEST2"
    THEN Outcome("NotImplementedError", "None", <<>>, "uncalled")
    ELSE LET dec == Decode(d)
         IN  IF dec.err # "none" THEN Outcome(dec.err, "None", <<>>, dec.err)
             ELSE IF cmd.name = "XML_SYSTEMINFO_REQUEST" THEN SystemInfoOf(dec.obj)
             ELSE ListOutcome(cmd, dec.obj)

\* a command just constructed, and the input its parse is called with
InitData ==
    /\ infoKeys = FacadeInfoKeys
    /\ client = NoClient
    /\ sessions = <<>>
    /\ calls = [t \in Tasks |-> Idle]
    /\ nCalls = 0
    /\ nGets = 0
    /\ ret = NoRet
    /\ \E name \in CommandNames :
          /\ command = NewCommand(name, "rapidJSON")
          /\ data \in DataTried(name)
    /\ lastCall = NoLast
    /\ locations = <<>>
    /\ parseOut = NoStops

\* command.parse(data)
ParseCommand ==
    /\ parseOut.op = "none"
    /\ parseOut' = [op |-> "command", out |-> ParseData(command, data)]
    /\ UNCHANGED <<locations, data, facadeVars, commandVars>>

SpecData == InitData /\ [][ParseCommand]_vars

----------------------------------------------------------------------------
(* A facade method up to its GET, as a function of the format the client   *)
(* holds and of its arguments                                              *)

\* a method, its arguments and the format in self._format
InitPlan ==
    /\ infoKeys = FacadeInfoKeys
    /\ client = NoClient
    /\ sessions = <<>>
    /\ calls = [t \in Tasks |-> Idle]
    /\ nCalls = 0
    /\ nGets = 0
    /\ \E op \in Ops : ret \in {Ret(0, op, a) : a \in ArgsOf(op)}
    /\ command = NoCommand
    /\ lastCall = NoLast
    /\ locations = <<>>
    /\ parseOut = NoStops
    /\ data \in {StrV(f) : f \in FormatInputs}

\* the method runs up to its GET: the command it built, or the error raised
BuildPlan ==
    /\ lastCall.op = "none"
    /\ \E plan \in {Facade(ret.op, data.v, ret.args)} :
          /\ command' = plan.cmd
          /\ lastCall' = LastCall("plan", "", None, plan.pre, <<>>,
                                  CommandToStr(plan.cmd), 0)
    /\ UNCHANGED <<infoKeys, facadeVars, parseVars>>

SpecPlan == InitPlan /\ [][BuildPlan]_vars

----------------------------------------------------------------------------
(* Properties *)

Constructed == client.state # "none"

Usable == client.state \in {"ready", "entered", "exited"}

NoUrl(u) == u.t = "none" \/ u.v = <<>>

\* C1, as stated: a client constructed with a format other than "rapidJSON"
\* fails with EfaFormatNotSupported, no session is created and no GET issued
C1_AsStated ==
    (Constructed /\ client.format_arg # "rapidJSON") =>
        /\ client.state = "failed"
        /\ client.err = "EfaFormatNotSupported"
        /\ sessions = <<>>
        /\ nGets = 0

\* C1, amended: a client constructed with a format other than "rapidJSON"
\* fails at construction, with EfaFormatNotSupported when its url is not
\* empty and with the ValueError of the url check when it is; in both cases
\* no session is ever created, no facade call is made and no GET is issued
C1_FormatRejected ==
    (Constructed /\ client.format_arg # "rapidJSON") =>
        /\ client.state = "failed"
        /\ client.err = IF NoUrl(client.url_arg) THEN "ValueError"
                        ELSE "EfaFormatNotSupported"
        /\ sessions = <<>>
        /\ nCalls = 0
        /\ nGets = 0

C1_Witness ==
    /\ client.state = "failed"
    /\ client.err = "EfaFormatNotSupported"
    /\ client.format_arg = "xml"

\* C2: a client constructed with a missing (None) or empty url fails with
\* ValueError, whatever its format; no session is ever created and no GET
\* is issued
C2_NoUrlRejected ==
    (Constructed /\ NoUrl(client.url_arg)) =>
        /\ client.state = "failed"
        /\ client.err = "ValueError"
        /\ sessions = <<>>
        /\ nCalls = 0
        /\ nGets = 0

C2_Witness ==
    /\ client.state = "failed"
    /\ client.err = "ValueError"
    /\ client.url_arg.t = "url"
    /\ client.format_arg = "rapidJSON"

\* C3: in every state of a constructed client the base url ends with "/":
\* it is the url given when that ends with "/", and the url given with one
\* "/" appended otherwise
C3_BaseUrlNormalized ==
    Usable =>
        LET u == client.url_arg.v
            b == client.base_url
        IN  /\ Len(b) > 0
            /\ b[Len(b)] = "/"
            /\ IF u[Len(u)] = "/" THEN b = u ELSE b = u \o <<"/">>

C3_Witness ==
    /\ client.state = "exited"
    /\ nGets > 0
    /\ client.url_arg.v = <<"h", "/">>
    /\ client.base_url = <<"h", "/">>

\* C4: a session exists only once the context was entered; while the
\* context is entered the session the client holds is open and not yet
\* released; once the context was exited as often as it was entered,
\* normally or with an error, every session acquired is closed and was
\* released exactly once
C4_SessionScoped ==
    /\ client.state \in {"none", "failed", "ready"} => sessions = <<>>
    /\ client.state = "entered" =>
          sessions[client.session] = [open |-> TRUE, releases |-> 0]
    /\ LET RECURSIVE Exits(_)
           \* the number of __aexit__ calls the sessions ss got
           Exits(ss) == IF ss = <<>> THEN 0
                        ELSE Head(ss).releases + Exits(Tail(ss))
       IN  (client.state = "exited" /\ Exits(sessions) = Len(sessions)) =>
              \A i \in 1..Len(sessions) :
                 sessions[i] = [open |-> FALSE, releases |-> 1]

\* C5: _run_query decides by the status alone: with status 200 it raises no
\* connection error and returns the body the server sent once that is read
\* (a read that breaks leaves as the error of the transport, with no text);
\* with any other status it raises EfaConnectionError naming that status and
\* returns no text
C5_StatusClassified ==
    (ret.task # 0 /\ ret.http # 0) =>
        IF ret.http = 200
        THEN /\ ret.err # "EfaConnectionError"
             /\ ret.err # "TransportError" => (ret.text = ret.body /\ ret.parsed)
             /\ ret.err = "TransportError" =>
                   (ret.text = None /\ ~ret.parsed /\ ret.result = NoResult)
        ELSE /\ ret.err = "EfaConnectionError"
             /\ ret.err_status = ret.http
             /\ ret.text = None
             /\ ret.result = NoResult

C5_Witness ==
    /\ ret.task # 0
    /\ ret.http = 204
    /\ ret.err = "EfaConnectionError"
    /\ ret.err_status = 204

\* the operations that are stubs, and those that are implemented
StubOps == {"trip", "additional_info_stop"}

ImplementedOps == Ops \ StubOps

\* the invocation r passed the method's input guard and every add_param
GuardsPass(r) ==
    LET plan == Facade(r.op, client.format, r.args)
    IN  plan.pre # "ValueError" /\ plan.cmd.err = "none"

\* the invocation r ran with a transport that answers every GET with 400:
\* its GET was answered 400, or it ended inside the scope without a GET
Answered400(r) ==
    /\ r.task # 0
    /\ GuardsPass(r)
    /\ r.http = 400 \/ (r.gets = 0 /\ client.state = "entered")

\* C6, as stated: with a transport that answers every GET with 400, every
\* public method of the facade raises EfaConnectionError carrying 400
C6_AsStated ==
    Answered400(ret) =>
        ret.err = "EfaConnectionError" /\ ret.err_status = 400

\* C6, amended: with a transport that answers every GET with 400, each of
\* the ten methods that issue a GET raises EfaConnectionError carrying 400
\* and returns nothing; trip and additional_info_stop issue no GET, so they
\* never get that answer and never raise the connection error
C6_Raises400 ==
    Answered400(ret) =>
        IF ret.op \in StubOps
        THEN ret.gets = 0 /\ ret.http = 0 /\ ret.err # "EfaConnectionError"
        ELSE /\ ret.gets = 1
             /\ ret.err = "EfaConnectionError"
             /\ ret.err_status = 400
             /\ ret.result = NoResult

C6_Witness ==
    /\ ret.task # 0
    /\ ret.op = "line_stops"
    /\ ret.http = 400
    /\ ret.err = "EfaConnectionError"
    /\ ret.err_status = 400

\* C7: every stub operation (trip, additional_info_stop) ends with
\* NotImplementedError, whatever its arguments and the state of the client,
\* without a GET and without a value
C7_StubsNotImplemented ==
    (ret.task # 0 /\ ret.op \in StubOps) =>
        /\ ret.err = "NotImplementedError"
        /\ ret.gets = 0
        /\ ret.result = NoResult

\* C8: an invocation of an implemented operation that passes its guards
\* issues one GET and no more: none is in flight twice, an invocation made
\* inside the scope ends with exactly one GET issued, and there are never
\* more GETs than invocations; when that GET does not answer 200 the
\* invocation ends with an error, its parser did not run and it has no result
C8_OneGetNoRetry ==
    /\ nGets <= nCalls
    /\ \A t \in Tasks : calls[t].pc # "idle" => calls[t].gets = 1
    /\ (ret.task # 0 /\ ret.op \in ImplementedOps /\ GuardsPass(ret)) =>
          /\ ret.gets <= 1
          /\ client.state = "entered" => ret.gets = 1
          /\ (ret.gets = 1 /\ ret.http # 200) =>
                /\ ret.err # "none"
                /\ ~ret.parsed
                /\ ret.result = NoResult
          /\ (ret.http \notin {0, 200}) =>
                ret.err = "EfaConnectionError" /\ ret.err_status = ret.http

C8_Witness ==
    /\ ret.task # 0
    /\ ret.op = "lines_by_name"
    /\ ret.gets = 1
    /\ nGets = 1
    /\ ret.http = 500
    /\ ret.err = "EfaConnectionError"
    /\ ~ret.parsed

\* what a call of op with arguments a returns when it runs alone and its GET
\* is answered with status and body
AloneUrl(op, a) == build_url(client.base_url, Facade(op, client.format, a).cmd)

AloneResult(op, a, status, body) ==
    LET plan == Facade(op, client.format, a)
        q == run_query(status, body)
    IN  IF q.err # "none" THEN NoResult
        ELSE LET parsed == CommandParse(plan.cmd, q.text)
             IN  IF parsed.err # "none" THEN NoResult
                 ELSE [items |-> PySlice(parsed.items, plan.limit), kind |-> parsed.kind]

\* C9: under every interleaving of two calls, the command and the url of a
\* call in flight are those its own operation and arguments build, and the
\* url and the result of a call that ended are those it has when run alone
C9_CallsIsolated ==
    /\ \A t \in Tasks : calls[t].pc # "idle" =>
          /\ calls[t].cmd = Facade(calls[t].op, client.format, calls[t].args).cmd
          /\ calls[t].url = AloneUrl(calls[t].op, calls[t].args)
    /\ (ret.task # 0 /\ ret.gets > 0) => ret.url = AloneUrl(ret.op, ret.args)
    /\ (ret.task # 0 /\ ret.http # 0 /\ ret.err # "TransportError") =>
          ret.result = AloneResult(ret.op, ret.args, ret.http, ret.body)

C9_Witness ==
    /\ ret.task = 1
    /\ ret.http = 200
    /\ ret.err = "none"
    /\ Len(ret.result.items) > 0
    /\ calls[2].pc = "sent"
    /\ calls[2].seq = 2
    /\ calls[2].op # ret.op

\* the operations that slice their result to limit
LimitOps == {"locations_by_name", "location_by_coord", "departures_by_location"}

\* C10: a call of locations_by_name, location_by_coord or
\* departures_by_location with limit k >= 0 whose parsed (and sorted) result
\* has m items returns its first k items in their order when k < m, and all
\* m items when m <= k
C10_LimitTruncates ==
    (/\ ret.task # 0
     /\ ret.op \in LimitOps
     /\ ret.http = 200
     /\ ret.err = "none"
     /\ ret.args.limit.t = "int"
     /\ ret.args.limit.v >= 0) =>
        LET full == CommandParse(Facade(ret.op, client.format, ret.args).cmd,
                                 ret.body).items
            k == ret.args.limit.v
            m == Len(full)
            got == ret.result.items
        IN  IF k < m
            THEN Len(got) = k /\ \A i \in 1..k : got[i] = full[i]
            ELSE got = full

C10_Witness ==
    /\ ret.task # 0
    /\ ret.op = "locations_by_name"
    /\ ret.http = 200
    /\ ret.err = "none"
    /\ ret.args.limit = IntV(1)
    /\ Len(ret.body.items) = 2
    /\ ret.body.items[1].matchQuality.v < ret.body.items[2].matchQuality.v
    /\ Len(ret.result.items) = 1
    /\ ret.result.items[1].name = ret.body.items[2].name

\* the methods that take a required identifier, and an identifier that is
\* missing (None) or empty
GuardedOps ==
    {"locations_by_name", "departures_by_location", "lines_by_location",
     "lines_by_name", "line_stops"}

EmptyIdent(a) == a.ident.t = "none" \/ (a.ident.t = "str" /\ a.ident.v = "")

NotAStop(a) == a.ident.t = "loc" /\ a.ident.loc_type # "stop"

\* C11: a call of a guarded method with a missing or empty identifier, and a
\* call of lines_by_location with a Location that is not a stop, ends with
\* ValueError, whatever the state of the client: no command was built, no
\* url was built, and no GET was issued or answered
C11_GuardsRaiseValueError ==
    (/\ ret.task # 0
     /\ \/ ret.op \in GuardedOps /\ EmptyIdent(ret.args)
        \/ ret.op = "lines_by_location" /\ NotAStop(ret.args)) =>
        /\ ret.err = "ValueError"
        /\ Facade(ret.op, client.format, ret.args).cmd = NoCommand
        /\ ret.url = <<>>
        /\ ret.gets = 0
        /\ ret.http = 0

C11_Witness ==
    /\ ret.task # 0
    /\ client.state = "entered"
    /\ ret.op = "lines_by_location"
    /\ ret.args.ident = Loc("c", "poi")
    /\ ret.err = "ValueError"
    /\ ret.gets = 0

\* the schema of the command under construction
OwnSchema == ParamsSchema(command.name)

\* the last call was add_param with a key the command declares
AddedDeclared == lastCall.op = "add" /\ lastCall.key \in DOMAIN OwnSchema

\* the pair add_param was called with is stored, once, and every other
\* parameter is as it was before the call
StoredAsGiven ==
    LET params == command.params
        hits == {i \in 1..Len(params) : params[i][1] = lastCall.key}
    IN  /\ Cardinality(hits) = 1
        /\ \A i \in hits : params[i] = <<lastCall.key, lastCall.value>>
        /\ \A i \in 1..Len(lastCall.before) :
              lastCall.before[i][1] # lastCall.key => params[i] = lastCall.before[i]

\* C12: add_param with a key the command's schema does not declare raises
\* EfaParameterError, for every command and every value tried, and leaves the
\* parameters as they were
C12_UndeclaredKeyRejected ==
    (lastCall.op = "add" /\ lastCall.key \notin DOMAIN OwnSchema) =>
        /\ lastCall.raised = "EfaParameterError"
        /\ command.params = lastCall.before

C12_Witness ==
    /\ lastCall.op = "add"
    /\ command.name = "XML_SYSTEMINFO_REQUEST"
    /\ lastCall.key = "itdDate"
    /\ lastCall.raised = "EfaParameterError"

\* C13: add_param on the serving-lines command with a declared key and a
\* value outside the domain declared for that key raises EfaParameterError
\* at the call, and stores nothing
C13_OutOfDomainRejected ==
    (/\ AddedDeclared
     /\ command.name = "XML_SERVINGLINES_REQUEST"
     /\ ~InDomain(ServingLinesSchema[lastCall.key], lastCall.value)) =>
        /\ lastCall.raised = "EfaParameterError"
        /\ command.params = lastCall.before

\* the commands whose tests add "any_value" under each of their keys
AnyValueCommands ==
    {"XML_SERVINGLINES_REQUEST", "XML_LINELIST_REQUEST", "XML_LINESTOP_REQUEST",
     "XML_STOPFINDER_REQUEST"}

\* C14: on the serving-lines, line-list, line-stop and stop-finder commands,
\* add_param(key, "any_value") raises nothing for every key the command
\* declares, and the pair is stored
C14_AnyValueAccepted ==
    (/\ AddedDeclared
     /\ command.name \in AnyValueCommands
     /\ lastCall.value = StrV("any_value")) =>
        /\ lastCall.raised = "none"
        /\ StoredAsGiven

C14_Witness ==
    /\ lastCall.op = "add"
    /\ command.name = "XML_SERVINGLINES_REQUEST"
    /\ lastCall.key = "mode"
    /\ lastCall.value = StrV("any_value")
    /\ lastCall.raised = "none"

\* C15: add_param with a declared key and a value inside the domain declared
\* for it raises nothing, and afterwards the parameters hold exactly the
\* value given under that key (a boolean stays that boolean), the other
\* parameters being unchanged
C15_ValidStoredUnchanged ==
    (AddedDeclared /\ InDomain(OwnSchema[lastCall.key], lastCall.value)) =>
        /\ lastCall.raised = "none"
        /\ StoredAsGiven

C15_Witness ==
    /\ lastCall.op = "add"
    /\ command.name = "XML_SERVINGLINES_REQUEST"
    /\ lastCall.key = "mergeDir"
    /\ lastCall.value = BoolV(TRUE)
    /\ lastCall.raised = "none"
    /\ Len(lastCall.before) = 2
    /\ command.params[3] = <<"mergeDir", BoolV(TRUE)>>

\* the text a command called name has when just constructed
FreshText(name) == <<name, "?", "outputFormat", "=", "rapidJSON">>

\* C16: a command on which add_param was not yet called holds the one
\* parameter outputFormat = "rapidJSON" and serializes to
\* "<name>?outputFormat=rapidJSON"; its name is the name of its operation,
\* and no call made on the command changes it
C16_FreshCommand ==
    /\ [](lastCall.n = 0 =>
            /\ command.name \in CommandNames
            /\ command.params = << <<"outputFormat", StrV("rapidJSON")>> >>
            /\ lastCall.op = "str" => lastCall.text = FreshText(command.name))
    /\ [][command'.name = command.name]_vars

C16_Witness ==
    /\ lastCall.op = "str"
    /\ lastCall.n = 0
    /\ command.name = "XML_SERVINGLINES_REQUEST"
    /\ lastCall.text = FreshText("XML_SERVINGLINES_REQUEST")

RECURSIVE JoinUpTo(_, _)
\* the first n pairs of params as key=value, joined by "&"
JoinUpTo(params, n) ==
    IF n = 0 THEN <<>>
    ELSE JoinUpTo(params, n - 1) \o (IF n > 1 THEN <<"&">> ELSE <<>>)
         \o <<params[n][1], "=">> \o ValueToStr(params[n][2])

\* C17: outputFormat is the first parameter; add_param puts a new key behind
\* the parameters there are and leaves a key that is there in its place;
\* str(command) is the name, "?", and the pairs in that order as key=value
\* joined by "&", the text of each value as it is; and the url is the base
\* url followed by that text
C17_SerializedInOrder ==
    /\ command.params[1][1] = "outputFormat"
    /\ (lastCall.op = "add" /\ lastCall.raised = "none") =>
          IF \E i \in 1..Len(lastCall.before) : lastCall.before[i][1] = lastCall.key
          THEN /\ Len(command.params) = Len(lastCall.before)
               /\ \A i \in 1..Len(command.params) :
                     command.params[i][1] = lastCall.before[i][1]
          ELSE command.params =
                  Append(lastCall.before, <<lastCall.key, lastCall.value>>)
    /\ lastCall.op = "str" =>
          /\ lastCall.text =
                <<command.name, "?">> \o JoinUpTo(command.params, Len(command.params))
          /\ build_url(<<"h", "/">>, command) = <<"h", "/">> \o lastCall.text

C17_Witness ==
    /\ lastCall.op = "str"
    /\ lastCall.n = 2
    /\ lastCall.text =
          <<"XML_STOPFINDER_REQUEST", "?", "outputFormat", "=", "rapidJSON", "&",
            "coordOutputFormat", "=", "WGS84[dd.ddddd]", "&", "name_sf", "=",
            "any_value">>

RECURSIVE SplitOn(_, _)
\* str.split(sep) on a text kept as pieces
SplitOn(text, sep) ==
    IF \A i \in 1..Len(text) : text[i] # sep THEN <<text>>
    ELSE LET i == CHOOSE i \in 1..Len(text) :
                     text[i] = sep /\ \A j \in 1..(i - 1) : text[j] # sep
         IN  <<SubSeq(text, 1, i - 1)>> \o SplitOn(SubSeq(text, i + 1, Len(text)), sep)

\* the pairs read back from a serialized command: what follows "?" is split
\* on "&", and each part on "="
ParseQuery(text) ==
    LET parts == SplitOn(SubSeq(text, 3, Len(text)), "&")
    IN  [i \in 1..Len(parts) |->
            LET kv == SplitOn(parts[i], "=")
            IN  <<kv[1], IF Len(kv) > 1 THEN kv[2] ELSE <<>> >>]

\* the pairs of the command, each key and the text of its value
PairsAsText ==
    [i \in 1..Len(command.params) |->
        << <<command.params[i][1]>>, ValueToStr(command.params[i][2]) >>]

\* no value of the command has "&" or "=" in its text
NoSeparators ==
    \A i \in 1..Len(command.params) :
        \A j \in 1..Len(ValueToStr(command.params[i][2])) :
            ValueToStr(command.params[i][2])[j] \notin {"&", "="}

\* C18, as stated: whatever parameters were added and in whatever order,
\* splitting the serialized command on "&" and "=" gives back the pairs of
\* the command
C18_AsStated ==
    lastCall.op = "str" => ParseQuery(lastCall.text) = PairsAsText

\* C18, amended: when no value contains "&" or "=", splitting the serialized
\* command on "&" and "=" gives back the keys of the command and the text
\* of their values, in whatever order the keys were inserted
C18_RoundTrip ==
    (lastCall.op = "str" /\ NoSeparators) => ParseQuery(lastCall.text) = PairsAsText

C18_Witness ==
    /\ lastCall.op = "str"
    /\ command.name = "XML_SERVINGLINES_REQUEST"
    /\ Len(command.params) = 3
    /\ command.params[2] = <<"name_sl", StrV("any_value")>>
    /\ command.params[3] = <<"mode", StrV("odv")>>
    /\ NoSeparators

\* location.get("matchQuality", 0) of a location of the response
QualityOf(location) == Get(location.matchQuality, IntV(0)).v

\* no two locations of the response have the same match quality
DistinctQualities ==
    \A i, j \in 1..Len(locations) :
        i # j => QualityOf(locations[i]) # QualityOf(locations[j])

\* C19: when the locations of a response have distinct match qualities,
\* parse returns as many stops as there are locations, and some one-to-one
\* assignment of the locations to the positions of the result gives each
\* stop the name and type of its location with the match qualities strictly
\* descending along the result
C19_SortedByMatchQuality ==
    (parseOut.op = "parse" /\ DistinctQualities) =>
        /\ Len(parseOut.stops) = Len(locations)
        /\ \E p \in [1..Len(locations) -> 1..Len(locations)] :
              /\ \A i, j \in 1..Len(locations) : i # j => p[i] # p[j]
              /\ \A i \in 1..Len(locations) :
                    /\ parseOut.stops[i].name = locations[p[i]].name
                    /\ parseOut.stops[i].stop_type = locations[p[i]].type
              /\ \A i, j \in 1..Len(locations) :
                    i < j => QualityOf(locations[p[i]]) > QualityOf(locations[p[j]])

C19_Witness ==
    /\ parseOut.op = "parse"
    /\ Len(locations) = 2
    /\ QualityOf(locations[1]) = 1
    /\ QualityOf(locations[2]) = 2
    /\ parseOut.stops[1].name = StrV("n2")
    /\ parseOut.stops[2].name = StrV("n1")

\* the location has a "properties" object that carries a stopId
HasStopId(location) ==
    location.properties.t = "dict" /\ location.properties.stopId.t # "absent"

\* the location says its id is the global one
IsGlobal(location) ==
    location.isGlobalId.t = "bool" /\ location.isGlobalId.v

\* the result has a stop with this name and this id
Resolved(name, id) ==
    \E j \in 1..Len(parseOut.stops) :
        parseOut.stops[j].name = name /\ parseOut.stops[j].id = id

\* C20: each location of a response decides on its own where its id comes
\* from: one with isGlobalId true gets its top-level id even when it has a
\* properties.stopId, one with isGlobalId false or missing and a
\* properties.stopId gets that stop id, whatever the other locations of the
\* response say
C20_IdResolvedPerItem ==
    parseOut.op = "parse" =>
        /\ Len(parseOut.stops) = Len(locations)
        /\ \A i \in 1..Len(locations) :
              /\ IsGlobal(locations[i]) =>
                    Resolved(locations[i].name, locations[i].id)
              /\ (~IsGlobal(locations[i]) /\ HasStopId(locations[i])) =>
                    Resolved(locations[i].name, locations[i].properties.stopId)

C20_Witness ==
    /\ parseOut.op = "parse"
    /\ Len(locations) = 2
    /\ IsGlobal(locations[1]) /\ HasStopId(locations[1])
    /\ ~IsGlobal(locations[2]) /\ HasStopId(locations[2])
    /\ QualityOf(locations[1]) = 1
    /\ QualityOf(locations[2]) = 2
    /\ parseOut.stops[1].id = StrV("s2")
    /\ parseOut.stops[2].id = StrV("g1")

\* the input of the parse is neither a text nor an object: True, 123 or None
NeitherTextNorObject == data.t \notin {"text", "empty", "obj"}

\* C21, as stated: the parse of every command, called with an input that is
\* neither a text nor an object, raises TypeError
C21_AsStated ==
    (parseOut.op = "command" /\ NeitherTextNorObject) => parseOut.out.err = "TypeError"

\* C21, amended: the parse of every command but the trip command, called
\* with True or 123, raises TypeError and returns nothing; the parse of the
\* system-info command, called with None, raises EfaResponseInvalid and not
\* TypeError; the parse of the trip command raises NotImplementedError
\* whatever it is called with
C21_TypeErrorButTrip ==
    parseOut.op = "command" =>
        /\ (NeitherTextNorObject /\ command.name # "XML_TRIP_REQUEST2") =>
              IF data.t = "none"
              THEN /\ command.name = "XML_SYSTEMINFO_REQUEST"
                   /\ parseOut.out.err = "EfaResponseInvalid"
                   /\ parseOut.out.kind = "None"
              ELSE /\ parseOut.out.err = "TypeError"
                   /\ parseOut.out.kind = "None"
        /\ command.name = "XML_TRIP_REQUEST2" =>
              parseOut.out.err = "NotImplementedError"

C21_Witness ==
    /\ parseOut.op = "command"
    /\ command.name = "XML_DM_REQUEST"
    /\ data = IntV(123)
    /\ parseOut.out.err = "TypeError"

\* what the parser hands to SystemInfo.from_dict is None or a mapping
\* without the keys of a system info: None, {} and {"dummy": "value"} handed
\* to the parse, and the mapping the empty text is decoded to
NoSystemInfoIn(d) == d.t \in {"none", "empty"} \/ (d.t = "obj" /\ ~d.version)

\* C22: the parse of the system-info command, when the decoded input is
\* None, an empty mapping or a mapping that lacks the required keys, raises
\* EfaResponseInvalid and returns no SystemInfo
C22_SystemInfoInvalid ==
    (/\ parseOut.op = "command"
     /\ command.name = "XML_SYSTEMINFO_REQUEST"
     /\ NoSystemInfoIn(data)) =>
        /\ parseOut.out.err = "EfaResponseInvalid"
        /\ parseOut.out.kind # "SystemInfo"

\* C23: when the response parser is called on a text that is not JSON, the
\* EfaParseError it raises is the error the command's parse raises, and the
\* parse returns no list, empty or partial
C23_ParseErrorPropagates ==
    (/\ parseOut.op = "command"
     /\ command.name # "XML_TRIP_REQUEST2"
     /\ data.t = "text" /\ ~data.json) =>
        /\ parseOut.out.parser = "EfaParseError"
        /\ parseOut.out.err = "EfaParseError"
        /\ parseOut.out.kind = "None"
        /\ parseOut.out.items = <<>>

C23_Witness ==
    /\ parseOut.op = "command"
    /\ command.name = "XML_SERVINGLINES_REQUEST"
    /\ data = Text(FALSE, Absent)
    /\ parseOut.out.err = "EfaParseError"

\* the command holds value under key
HasPair(cmd, key, value) ==
    \E i \in 1..Len(cmd.params) : cmd.params[i] = <<key, value>>

\* the command holds a value under key
HasKey(cmd, key) == \E i \in 1..Len(cmd.params) : cmd.params[i][1] = key

\* C24: the command departures_by_location builds holds mode = "direct" and
\* useProxFootSearch = "0" when the client's format is "rapidJSON", and
\* mode = "any" and no useProxFootSearch when it is any other format
C24_ModeFollowsFormat ==
    (/\ lastCall.op = "plan"
     /\ ret.op = "departures_by_location"
     /\ lastCall.raised = "none") =>
        IF data.v = "rapidJSON"
        THEN /\ HasPair(command, "mode", StrV("direct"))
             /\ HasPair(command, "useProxFootSearch", StrV("0"))
        ELSE /\ HasPair(command, "mode", StrV("any"))
             /\ ~HasKey(command, "useProxFootSearch")

C24_Witness ==
    /\ lastCall.op = "plan"
    /\ ret.op = "departures_by_location"
    /\ data.v = "xml"
    /\ HasPair(command, "mode", StrV("any"))
    /\ HasPair(command, "name_dm", StrV("a"))

\* the keys a method adds whatever its arguments and the format are,
\* outputFormat aside; trip and additional_info_stop build no command
AlwaysAdded(op) ==
    CASE op \in {"locations_by_name", "location_by_coord"} ->
           {"locationServerActive", "type_sf", "name_sf", "coordOutputFormat",
            "doNotSearchForStops_sf"}
      [] op = "list_stops" ->
           {"coordOutputFormat", "servingLines", "servingLinesMOTType",
            "servingLinesMOTTypes", "tariffZones"}
      [] op = "departures_by_location" ->
           {"locationServerActive", "coordOutputFormat", "name_dm", "type_dm", "mode",
            "useAllStops", "lsShowTrainsExplicit", "useRealtime"}
      [] op = "lines_by_name" ->
           {"mode", "lineName", "locationServerActive", "mergeDir",
            "lsShowTrainsExplicit", "coordOutputFormat"}
      [] op = "lines_by_location" ->
           {"mode", "locationServerActive", "type_sl", "name_sl", "mergeDir",
            "lsShowTrainsExplicit", "coordOutputFormat"}
      [] op = "line_stops" -> {"coordOutputFormat", "line", "allStopInfo"}
      [] op \in {"trip", "additional_info_stop"} -> {}
      [] OTHER -> {"coordOutputFormat"}

\* the key under which a method adds the sum of its filters or request types
SumKey(op) ==
    CASE op = "locations_by_name" -> "anyObjFilter_sf"
      [] op \in {"list_lines", "lines_by_location"} -> "lineReqType"
      [] OTHER -> ""

\* C25: the url of every GET in flight is the base url followed by the
\* command with all the parameters of its method in it: the keys the method
\* always adds, coordOutputFormat = WGS84[dd.ddddd] among them, and the sum
\* of the filters or request types given; and an invocation in which an
\* add_param raised EfaParameterError issued no GET, received no response
\* and ran no parser
C25_ParamsBeforeGet ==
    /\ \A t \in Tasks :
          calls[t].pc # "idle" =>
             /\ calls[t].url = client.base_url \o CommandToStr(calls[t].cmd)
             /\ \A k \in AlwaysAdded(calls[t].op) : HasKey(calls[t].cmd, k)
             /\ HasPair(calls[t].cmd, "coordOutputFormat", StrV("WGS84[dd.ddddd]"))
             /\ (SumKey(calls[t].op) # "" /\ calls[t].args.nums # <<>>) =>
                   HasPair(calls[t].cmd, SumKey(calls[t].op),
                           IntV(SumSeq(calls[t].args.nums)))
    /\ (ret.task # 0 /\ ret.err = "EfaParameterError") =>
          /\ ret.gets = 0
          /\ ret.http = 0
          /\ ret.url = <<>>
          /\ ~ret.parsed
          /\ ret.result = NoResult

\* info() inside an open scope, on a command whose schema does not declare
\* coordOutputFormat: the add_param of line 74 raised, and no GET was issued
C25_Witness ==
    /\ ret.task # 0
    /\ ret.op = "info"
    /\ ret.err = "EfaParameterError"
    /\ ret.err_key = "coordOutputFormat"
    /\ client.state = "entered"
    /\ sessions[client.session].open
    /\ ret.gets = 0
    /\ nGets = 0

\* the methods that return a list of lines or of the stops of a line
LineOps == {"list_lines", "lines_by_name", "lines_by_location", "line_stops"}

\* the list the response carries, none counting as the empty list
ServerList(body) == IF body.listed THEN body.items ELSE <<>>

\* C27: what list_lines, lines_by_name, lines_by_location and line_stops
\* return has one object per element of the list in the response, in the
\* order of the response, and is empty when the response has no list;
\* those of lines_by_name and lines_by_location are the Lines that
\* CommandServingLines.parse builds
C27_LinesInServerOrder ==
    (/\ ret.task # 0
     /\ ret.op \in LineOps
     /\ ret.parsed
     /\ ret.err = "none") =>
        /\ Len(ret.result.items) = Len(ServerList(ret.body))
        /\ \A i \in 1..Len(ret.result.items) :
              /\ ret.result.items[i].id = ServerList(ret.body)[i].id
              /\ ret.result.items[i].name = ServerList(ret.body)[i].name
              /\ ret.op \in {"lines_by_name", "lines_by_location"} =>
                    ret.result.items[i].kind = "Line"

C27_Witness ==
    /\ ret.task # 0
    /\ ret.op = "lines_by_name"
    /\ ret.parsed
    /\ Len(ret.body.items) = 2
    /\ ret.body.items[1].matchQuality.v < ret.body.items[2].matchQuality.v
    /\ Len(ret.result.items) = 2
    /\ ret.result.items[1].name = ret.body.items[1].name
    /\ ret.result.items[2].name = ret.body.items[2].name

\* C28: after an add_param call that raised EfaParameterError the command
\* has the parameters it had before the call, the rejected key is not among
\* them unless it was before, and str(command) is the text those
\* parameters have
C28_FailedAddLeavesCommand ==
    (lastCall.op = "add" /\ lastCall.raised # "none") =>
        /\ lastCall.raised = "EfaParameterError"
        /\ command.params = lastCall.before
        /\ \A i \in 1..Len(command.params) : command.params[i][1] # lastCall.key
        /\ CommandToStr(command) =
              <<command.name, "?">> \o JoinUpTo(lastCall.before, Len(lastCall.before))

C28_Witness ==
    /\ lastCall.op = "add"
    /\ lastCall.raised = "EfaParameterError"
    /\ lastCall.key = "param"
    /\ command.name = "XML_SERVINGLINES_REQUEST"
    /\ command.params =
          << <<"outputFormat", StrV("rapidJSON")>>, <<"mode", StrV("odv")>> >>

\* C29: a GET is issued only while the client is inside its scope and the
\* session of that scope is open; and an invocation made while the client
\* was not inside a scope (it issued no GET) ended with an error, with no
\* parser run and no result
C29_GetOnlyInsideScope ==
    /\ [][nGets' # nGets =>
            /\ client.state = "entered"
            /\ sessions[client.session].open]_vars
    /\ []((ret.task # 0 /\ client.state # "entered" /\ ret.gets = 0) =>
            /\ ret.err # "none"
            /\ ~ret.parsed
            /\ ret.result = NoResult)

\* C30: the id of every stop that parse returns is a string: the top-level
\* id of its location, the stopId of its properties, or the empty string;
\* it is never None
C30_IdIsString ==
    parseOut.op = "parse" =>
        \A j \in 1..Len(parseOut.stops) : parseOut.stops[j].id.t = "str"

====
